---- MODULE Spec2Model ----
(***************************************************************************)
(* A model of easypack: the versioned container writers (1.0 and 1.1),     *)
(* the readers, the version dispatcher and the library entry points that   *)
(* pack, update and unpack a container file.                               *)
(*                                                                         *)
(* Bytes are naturals in 0..255, a file or a name is a sequence of bytes.  *)
(* The specifications share the operators that model the code:             *)
(*   Spec         one writer session on an in-memory sink followed by one  *)
(*                reader session on the bytes it produced;                 *)
(*   SpecLib      pack_records, pack_records_update and unpack_records on  *)
(*                one path of the file system, which may hold a container  *)
(*                or a file that is none;                                  *)
(*   SpecInput    read_header, get_unpacker and one reader session on      *)
(*                bytes that no writer of the library need have produced;  *)
(*   SpecSize     one 1.0 writer session given records whose length does   *)
(*                not fit 32 bits or takes the 32-bit cursor past its end; *)
(*   SpecReaders  two reader sessions over the same bytes;                 *)
(*   SpecCli      one run of the program, or one call of unpack_files, on  *)
(*                the files its arguments name.                            *)
(***************************************************************************)
EXTENDS Integers, Sequences, FiniteSets, TLC

VARIABLES
    sink,       \* session: the output sink of the writer [bytes, cur, append]
    hp,         \* session: the Packer<HeaderStep> object
    rp,         \* session: the Packer<RecordStep> object
    wres,       \* session: result of the last writer call
    log,        \* session: history of the write_record calls [record, res]
    lastdrop,   \* session: what the last drop of a Packer saw and did
    rd,         \* session: the Unpacker object
    rres,       \* session: result of the last reader call
    file,       \* library: the file at the container path [exists, bytes]
    hist,       \* library: history of the calls that wrote the path
    fres,       \* library: result of unpack_records, "none" before it
    query,      \* library: names, found, notfound of the last unpack_records
    origin,     \* input: where the bytes handed to a reader come from
    rcur,       \* input: the cursor of the BufReader handed to read_header
    hres,       \* input: the last read_header or get_unpacker call
    peer,       \* readers: a second Unpacker object over the same bytes
    pres,       \* readers: result of the last call on the second Unpacker
    fs,         \* program: the files at the paths the arguments may name
    cli         \* program: the last run of main or call of unpack_files

vars == <<sink, hp, rp, wres, log, lastdrop, rd, rres, file, hist, fres, query,
          origin, rcur, hres, peer, pres, fs, cli>>
sessvars == <<sink, hp, rp, wres, log, lastdrop, rd, rres>>
libvars == <<file, hist, fres, query>>
inputvars == <<origin, rcur, hres>>
peervars == <<peer, pres>>
clivars == <<fs, cli>>

(***************************************************************************)
(* Bounds of the model.                                                    *)
(***************************************************************************)
\* write_record calls in one writer session
MaxWrites == 2
\* records handed to one pack_records / pack_records_update call
MaxRecs == 2
\* pack_records_update calls on the path
MaxUpdates == 1
\* names handed to one unpack_records call
MaxQuery == 2

(***************************************************************************)
(* Program constants.                                                      *)
(***************************************************************************)
\* utils::FILE_TYPE, "SMPL"
FILE_TYPE == <<83, 77, 80, 76>>
\* utils::HEADER_SIZE
HEADER_SIZE == 6
\* u8::MAX, the name length limit of write_record and write_toc_entry
U8_MAX == 255
\* capacity of the std BufReader every reader of the library is wrapped in
DEFAULT_BUF_SIZE == 8192
\* size_of::<u32>() and size_of::<u64>(): the field widths of 1.0 and 1.1
U32_SIZE == 4
U64_SIZE == 8

Min(a, b) == IF a < b THEN a ELSE b

(***************************************************************************)
(* Integer encoding.  to_le_bytes(n, w) is the w-byte little-endian form   *)
(* of n.  from_le_bytes decodes one; a value of 2^31-1 or more is          *)
(* represented by 2^31-1, which is larger than every file of the model, so *)
(* that it behaves as an offset, length or count past the end of file.     *)
(***************************************************************************)
RECURSIVE to_le_bytes(_, _)
to_le_bytes(n, w) ==
    IF w = 0 THEN <<>> ELSE <<n % 256>> \o to_le_bytes(n \div 256, w - 1)

RECURSIVE from_le_bytes(_)
from_le_bytes(b) ==
    IF b = <<>> THEN 0
    ELSE LET hi == from_le_bytes(Tail(b))
         IN  IF hi > 8388607 THEN 2147483647 ELSE b[1] + 256 * hi

(***************************************************************************)
(* Strings.  A String is its UTF-8 bytes; len() is the byte length.        *)
(* is_utf8 is the validity test of String::from_utf8.                      *)
(***************************************************************************)
IsCont(b) == b >= 128 /\ b <= 191

\* continuation bytes that follow the leading byte b; -1: not a leading byte
Following(b) ==
    IF b < 128 THEN 0
    ELSE IF b >= 194 /\ b <= 223 THEN 1
    ELSE IF b >= 224 /\ b <= 239 THEN 2
    ELSE IF b >= 240 /\ b <= 244 THEN 3
    ELSE -1

\* the byte after the leading byte b is in the range b allows
SecondByteOk(b, c) ==
    /\ (b = 224 => c >= 160)
    /\ (b = 237 => c <= 159)
    /\ (b = 240 => c >= 144)
    /\ (b = 244 => c <= 143)

\* every byte that is not a continuation byte leads a well-formed character,
\* and the bytes between two such bytes are exactly that character's
is_utf8(s) ==
    LET n == Len(s) IN
    /\ (n > 0 => ~IsCont(s[1]))
    /\ \A i \in 1..n :
          ~IsCont(s[i]) =>
              LET k == Following(s[i]) IN
              /\ k >= 0
              /\ i + k <= n
              /\ \A j \in (i + 1)..(i + k) : IsCont(s[j])
              /\ (k > 0 => SecondByteOk(s[i], s[i + 1]))
              /\ (i + k < n => ~IsCont(s[i + k + 1]))


\* number of characters of a valid UTF-8 string (str::chars().count())
char_count(s) == Cardinality({i \in 1..Len(s) : ~IsCont(s[i])})

\* utils::Record
Record_new(name, data) == [name |-> name, data |-> data]

(***************************************************************************)
(* The output sink.  A fresh Cursor or a file opened with write(true) is   *)
(* written at its cursor, which starts at 0, over whatever bytes are       *)
(* there; a file opened with append(true) is written at its end.           *)
(***************************************************************************)
write_all(s, buf) ==
    IF s.append THEN [s EXCEPT !.bytes = @ \o buf]
    ELSE LET e == s.cur + Len(buf)
         IN  [s EXCEPT !.bytes = SubSeq(@, 1, s.cur) \o buf \o SubSeq(@, e + 1, Len(@)),
                       !.cur = e]

(***************************************************************************)
(* writers::ver_1_1                                                        *)
(* A Packer is [pos, writer, toc_some, toc]: writer and toc_some tell      *)
(* whether the Option fields hold a value.                                 *)
(***************************************************************************)
TocEntry_new(record_name, data_start, data_len) ==
    [record_name |-> record_name, data_start |-> data_start, data_len |-> data_len]

same_record_name(entry, other) == entry.record_name = other

Packer_1_1_from_writer ==
    [pos |-> 0, writer |-> TRUE, toc_some |-> TRUE, toc |-> <<>>]

\* mutant: the current writer stamps the legacy version
write_header_1_1_legacy(w) ==
    write_all(write_all(write_all(w, FILE_TYPE), to_le_bytes(1, 1)), to_le_bytes(0, 1))

write_header_1_1(w) ==
    write_all(write_all(write_all(w, FILE_TYPE), to_le_bytes(1, 1)), to_le_bytes(1, 1))

\* mutant: the HeaderStep packer keeps its writer and stamps a header on
\* every call
Packer_1_1_write_header_again(p, w) ==
    [res |-> "Ok",
     self |-> p,
     next |-> [pos |-> p.pos + HEADER_SIZE, writer |-> TRUE,
               toc_some |-> p.toc_some, toc |-> p.toc],
     sink |-> write_header_1_1(w)]

\* mutant: the RecordStep packer starts at the position of the header
Packer_1_1_write_header_no_advance(p, w) ==
    IF ~p.writer
    THEN [res |-> "panic", self |-> p, next |-> p, sink |-> w]
    ELSE [res |-> "Ok",
          self |-> [p EXCEPT !.writer = FALSE, !.toc_some = FALSE, !.toc = <<>>],
          next |-> [pos |-> p.pos, writer |-> TRUE,
                    toc_some |-> p.toc_some, toc |-> p.toc],
          sink |-> write_header_1_1(w)]

\* self is the HeaderStep packer after the call, next the RecordStep packer
Packer_1_1_write_header(p, w) ==
    IF ~p.writer
    THEN [res |-> "panic", self |-> p, next |-> p, sink |-> w]
    ELSE [res |-> "Ok",
          self |-> [p EXCEPT !.writer = FALSE, !.toc_some = FALSE, !.toc = <<>>],
          next |-> [pos |-> p.pos + HEADER_SIZE, writer |-> TRUE,
                    toc_some |-> p.toc_some, toc |-> p.toc],
          sink |-> write_header_1_1(w)]

write_record_1_1(w, data) == write_all(w, data)

\* mutant: the cursor is not advanced past the record's data
Packer_1_1_write_record_stale_pos(p, w, record) ==
    LET data_start == p.pos
        data_len == Len(record.data)
        w1 == write_record_1_1(w, record.data)
    IN  IF \E i \in 1..Len(p.toc) : same_record_name(p.toc[i], record.name)
        THEN [res |-> "RecordSameName", p |-> p, sink |-> w1]
        ELSE IF Len(record.name) > U8_MAX
        THEN [res |-> "RecordNameTooBig", p |-> p, sink |-> w1]
        ELSE [res |-> "Ok",
              p |-> [p EXCEPT !.toc = Append(@, TocEntry_new(record.name, data_start, data_len))],
              sink |-> w1]

\* mutant: the name limit is applied to the number of characters
Packer_1_1_write_record_chars(p, w, record) ==
    LET data_start == p.pos
        data_len == Len(record.data)
        data_end == p.pos + data_len
        w1 == write_record_1_1(w, record.data)
    IN  IF \E i \in 1..Len(p.toc) : same_record_name(p.toc[i], record.name)
        THEN [res |-> "RecordSameName", p |-> p, sink |-> w1]
        ELSE IF char_count(record.name) > U8_MAX
        THEN [res |-> "RecordNameTooBig", p |-> p, sink |-> w1]
        ELSE [res |-> "Ok",
              p |-> [p EXCEPT !.toc = Append(@, TocEntry_new(record.name, data_start, data_len)),
                              !.pos = data_end],
              sink |-> w1]

Packer_1_1_write_record(p, w, record) ==
    LET data_start == p.pos
        data_len == Len(record.data)
        data_end == p.pos + data_len
        w1 == write_record_1_1(w, record.data)
    IN  IF \E i \in 1..Len(p.toc) : same_record_name(p.toc[i], record.name)
        THEN [res |-> "RecordSameName", p |-> p, sink |-> w1]
        ELSE IF Len(record.name) > U8_MAX
        THEN [res |-> "RecordNameTooBig", p |-> p, sink |-> w1]
        ELSE [res |-> "Ok",
              p |-> [p EXCEPT !.toc = Append(@, TocEntry_new(record.name, data_start, data_len)),
                              !.pos = data_end],
              sink |-> w1]

\* the bytes written and the count returned, or the error
write_toc_entry_1_1(w, toc_entry) ==
    LET name == toc_entry.record_name
        w1 == write_all(write_all(w, to_le_bytes(toc_entry.data_start, U64_SIZE)),
                        to_le_bytes(toc_entry.data_len, U64_SIZE))
    IN  IF Len(name) > U8_MAX
        THEN [res |-> "RecordNameTooBig", sink |-> w1, written |-> 0]
        ELSE [res |-> "Ok",
              sink |-> write_all(write_all(w1, to_le_bytes(Len(name), 1)), name),
              written |-> U64_SIZE + U64_SIZE + 1 + Len(name)]

RECURSIVE close_loop_1_1(_, _, _, _)
close_loop_1_1(w, entries, i, pos) ==
    IF i > Len(entries) THEN [res |-> "Ok", sink |-> w, pos |-> pos, how_many |-> i - 1]
    ELSE LET written(r) ==
                 IF r.res # "Ok"
                 THEN [res |-> r.res, sink |-> r.sink, pos |-> pos, how_many |-> i - 1]
                 ELSE close_loop_1_1(r.sink, entries, i + 1, pos + r.written)
         IN  written(write_toc_entry_1_1(w, entries[i]))

\* mutant: close reads the toc without taking it out of the packer
Packer_1_1_close_no_take(p, w) ==
    LET table_pos == p.pos
        table(l) ==
            IF l.res # "Ok"
            THEN [res |-> l.res, p |-> [p EXCEPT !.pos = l.pos], sink |-> l.sink]
            ELSE [res |-> "Ok", p |-> [p EXCEPT !.pos = l.pos],
                  sink |-> write_all(write_all(l.sink, to_le_bytes(table_pos, U64_SIZE)),
                                     to_le_bytes(l.how_many, U64_SIZE))]
    IN  table(close_loop_1_1(w, p.toc, 1, p.pos))

\* p is self when close returns and self is dropped
Packer_1_1_close(p, w) ==
    LET table_pos == p.pos
        self(l) == [p EXCEPT !.toc_some = FALSE, !.toc = <<>>, !.pos = l.pos]
        table(l) ==
            IF l.res # "Ok"
            THEN [res |-> l.res, p |-> self(l), sink |-> l.sink]
            ELSE [res |-> "Ok", p |-> self(l),
                  sink |-> write_all(write_all(l.sink, to_le_bytes(table_pos, U64_SIZE)),
                                     to_le_bytes(l.how_many, U64_SIZE))]
    IN  table(close_loop_1_1(w, p.toc, 1, p.pos))

\* Drop for Packer: the assertion fails when the toc is Some and not empty
Packer_1_1_drop(p) == IF p.toc_some /\ p.toc # <<>> THEN "panic" ELSE "Ok"

(***************************************************************************)
(* writers::ver_1_0                                                        *)
(* A Packer is [pos, toc], the toc a sequence of <<pos, len, name>>.  The  *)
(* positions and lengths are u32; the files of the model stay far below    *)
(* 2^32 bytes.  This Packer has no Drop.                                   *)
(***************************************************************************)
Packer_1_0_from_writer == [pos |-> 0, toc |-> <<>>]

write_header_1_0(w) ==
    write_all(write_all(write_all(w, FILE_TYPE), to_le_bytes(1, 1)), to_le_bytes(0, 1))

Packer_1_0_write_header(p, w) ==
    [res |-> "Ok", next |-> [pos |-> p.pos + HEADER_SIZE, toc |-> p.toc],
     sink |-> write_header_1_0(w)]

write_record_1_0(w, data) == write_all(w, data)

\* record.data.len() as the 8 little-endian bytes of a usize.  A record whose
\* data is too long to be spelled out carries its length in a len field.
Vec_len(record) ==
    IF "len" \in DOMAIN record THEN record.len
    ELSE to_le_bytes(Len(record.data), U64_SIZE)

\* usize to u32 with try_into: the value fits when its upper four bytes are
\* zero; the ? turns the TryFromIntError into InternalError
try_into_u32(n) ==
    IF SubSeq(n, U32_SIZE + 1, U64_SIZE) = <<0, 0, 0, 0>>
    THEN [res |-> "Ok", v |-> from_le_bytes(SubSeq(n, 1, U32_SIZE))]
    ELSE [res |-> "InternalError", v |-> 0]

\* the bytes of a + b, least significant first, followed by the carry out
RECURSIVE add_le(_, _, _)
add_le(a, b, carry) ==
    IF a = <<>> THEN <<carry>>
    ELSE <<(a[1] + b[1] + carry) % 256>>
         \o add_le(Tail(a), Tail(b), (a[1] + b[1] + carry) \div 256)

\* self.pos + data_len on u32: the sum modulo 2^32 and whether it overflowed
add_u32(pos, data_len) ==
    LET sum == add_le(to_le_bytes(pos, U32_SIZE), data_len, 0)
    IN  [v |-> from_le_bytes(SubSeq(sum, 1, U32_SIZE)), overflow |-> sum[U32_SIZE + 1] # 0]

\* mutant: the name is not looked up in the pending table
Packer_1_0_write_record_no_lookup(p, w, record) ==
    LET data_start == p.pos
        data_len == Len(record.data)
        data_end == p.pos + data_len
        w1 == write_record_1_0(w, record.data)
    IN  IF Len(record.name) > U8_MAX
        THEN [res |-> "RecordNameTooBig", p |-> p, sink |-> w1]
        ELSE [res |-> "Ok",
              p |-> [p EXCEPT !.toc = Append(@, <<data_start, data_len, record.name>>),
                              !.pos = data_end],
              sink |-> w1]

\* without overflow checks the sum self.pos + data_len wraps
Packer_1_0_write_record(p, w, record) ==
    LET data_start == p.pos
        data_len == try_into_u32(Vec_len(record)).v
        data_end == add_u32(p.pos, SubSeq(Vec_len(record), 1, U32_SIZE)).v
        w1 == write_record_1_0(w, record.data)
    IN  IF try_into_u32(Vec_len(record)).res # "Ok"
        THEN [res |-> try_into_u32(Vec_len(record)).res, p |-> p, sink |-> w]
        ELSE IF \E i \in 1..Len(p.toc) : p.toc[i][3] = record.name
        THEN [res |-> "RecordSameName", p |-> p, sink |-> w1]
        ELSE IF Len(record.name) > U8_MAX
        THEN [res |-> "RecordNameTooBig", p |-> p, sink |-> w1]
        ELSE [res |-> "Ok",
              p |-> [p EXCEPT !.toc = Append(@, <<data_start, data_len, record.name>>),
                              !.pos = data_end],
              sink |-> w1]

\* what write_record does in the builds of the crate: with overflow checks
\* (the dev profile) the sum self.pos + data_len panics when it overflows,
\* before anything is written; without them (the release profile) it wraps
Packer_1_0_write_record_builds(p, w, record) ==
    {Packer_1_0_write_record(p, w, record)}
    \cup IF /\ try_into_u32(Vec_len(record)).res = "Ok"
            /\ add_u32(p.pos, SubSeq(Vec_len(record), 1, U32_SIZE)).overflow
         THEN {[res |-> "panic", p |-> p, sink |-> w]}
         ELSE {}

write_toc_entry_1_0(w, toc_entry) ==
    LET name == toc_entry[3]
        w1 == write_all(write_all(w, to_le_bytes(toc_entry[1], U32_SIZE)),
                        to_le_bytes(toc_entry[2], U32_SIZE))
    IN  IF Len(name) > U8_MAX
        THEN [res |-> "RecordNameTooBig", sink |-> w1]
        ELSE [res |-> "Ok",
              sink |-> write_all(write_all(w1, to_le_bytes(Len(name), 1)), name)]

RECURSIVE close_loop_1_0(_, _, _)
close_loop_1_0(w, entries, i) ==
    IF i > Len(entries) THEN [res |-> "Ok", sink |-> w, how_many |-> i - 1]
    ELSE LET written(r) ==
                 IF r.res # "Ok"
                 THEN [res |-> r.res, sink |-> r.sink, how_many |-> i - 1]
                 ELSE close_loop_1_0(r.sink, entries, i + 1)
         IN  written(write_toc_entry_1_0(w, entries[i]))

\* mutant: the legacy close writes the table and the footer in the 1.1 layout
Packer_1_0_close_wide(p, w) ==
    LET table_pos == p.pos
        entries == [i \in 1..Len(p.toc) |->
                       TocEntry_new(p.toc[i][3], p.toc[i][1], p.toc[i][2])]
        self == [p EXCEPT !.toc = <<>>]
        table(l) ==
            IF l.res # "Ok"
            THEN [res |-> l.res, p |-> self, sink |-> l.sink]
            ELSE [res |-> "Ok", p |-> self,
                  sink |-> write_all(write_all(l.sink, to_le_bytes(table_pos, U64_SIZE)),
                                     to_le_bytes(l.how_many, U64_SIZE))]
    IN  table(close_loop_1_1(w, entries, 1, p.pos))

Packer_1_0_close(p, w) ==
    LET table_pos == p.pos
        self == [p EXCEPT !.toc = <<>>]
        table(l) ==
            IF l.res # "Ok"
            THEN [res |-> l.res, p |-> self, sink |-> l.sink]
            ELSE [res |-> "Ok", p |-> self,
                  sink |-> write_all(write_all(l.sink, to_le_bytes(table_pos, U32_SIZE)),
                                     to_le_bytes(l.how_many, U32_SIZE))]
    IN  table(close_loop_1_0(w, p.toc, 1))

(***************************************************************************)
(* The input.  Every reader of the library and of the tests is a std       *)
(* BufReader over a Cursor or a File.  A cursor is [pos, bufend]: the      *)
(* buffer holds the bytes from pos up to bufend.  seek empties the buffer. *)
(* read returns what the buffer holds, up to the length asked for; with an *)
(* empty buffer it first fills it with up to DEFAULT_BUF_SIZE bytes, or    *)
(* reads straight from the input when at least that many are asked for.    *)
(***************************************************************************)
seek(pos) == [pos |-> pos, bufend |-> pos]

BufReader_read(bytes, cur, n) ==
    LET inner == IF cur.pos >= Len(bytes) THEN 0 ELSE Len(bytes) - cur.pos
        empty == cur.pos >= cur.bufend
        direct == empty /\ n >= DEFAULT_BUF_SIZE
        filled == IF empty THEN cur.pos + Min(DEFAULT_BUF_SIZE, inner) ELSE cur.bufend
        got == IF direct THEN Min(n, inner) ELSE Min(n, filled - cur.pos)
    IN  [n |-> got,
         data |-> IF got = 0 THEN <<>> ELSE SubSeq(bytes, cur.pos + 1, cur.pos + got),
         cur |-> [pos |-> cur.pos + got,
                  bufend |-> IF direct THEN cur.pos + got ELSE filled]]

(***************************************************************************)
(* readers::ver_1_0                                                        *)
(* The toc is a sequence of <<pos, len, name>>.                            *)
(***************************************************************************)
\* mutant: the new reader already has an entry for the first byte, named "c"
Unpacker_1_0_from_reader_preloaded == <<<<0, 1, <<99>>>>>>

Unpacker_1_0_from_reader == <<>>

read_footer_1_0(bytes) ==
    IF Len(bytes) < 8
    THEN [res |-> "IoError", v1 |-> 0, v2 |-> 0]    \* seek before byte 0
    ELSE LET r == BufReader_read(bytes, seek(Len(bytes) - 8), 8)
         IN  IF r.n # 8
             THEN [res |-> "InvalidFileError", v1 |-> 0, v2 |-> 0]
             ELSE [res |-> "Ok",
                   v1 |-> from_le_bytes(SubSeq(r.data, 1, 4)),
                   v2 |-> from_le_bytes(SubSeq(r.data, 5, 8))]

\* mutant: the bytes that could be read are returned as the record
read_record_1_0_partial(bytes, pos, len) ==
    [res |-> "Ok", data |-> BufReader_read(bytes, seek(pos), len).data]

read_record_1_0(bytes, pos, len) ==
    LET r == BufReader_read(bytes, seek(pos), len)
    IN  IF r.n # len
        THEN [res |-> "InvalidFileError", data |-> <<>>]
        ELSE [res |-> "Ok", data |-> r.data]

\* one pass of the loop of read_toc_entries: the position, the length, the
\* name length and the name of one entry, each field by one read call
read_toc_entry_1_0(bytes, cur) ==
    LET invalid == [res |-> "InvalidFileError", entry |-> <<>>, cur |-> cur]
        got_name_len(r1, r2, r3) ==
            LET str_len == from_le_bytes(r3.data)
                got_name(r4) ==
                    IF r4.n # str_len THEN invalid
                    ELSE IF ~is_utf8(r4.data) THEN [res |-> "panic", entry |-> <<>>, cur |-> cur]
                    ELSE [res |-> "Ok",
                          entry |-> <<from_le_bytes(r1.data), from_le_bytes(r2.data), r4.data>>,
                          cur |-> r4.cur]
            IN  IF r3.n # 1 THEN invalid
                ELSE got_name(BufReader_read(bytes, r3.cur, str_len))
        got_len(r1, r2) ==
            IF r2.n # U32_SIZE THEN invalid
            ELSE got_name_len(r1, r2, BufReader_read(bytes, r2.cur, 1))
        got_pos(r1) ==
            IF r1.n # U32_SIZE THEN invalid
            ELSE got_len(r1, BufReader_read(bytes, r1.cur, U32_SIZE))
    IN  got_pos(BufReader_read(bytes, cur, U32_SIZE))

RECURSIVE read_toc_loop_1_0(_, _, _, _, _)
read_toc_loop_1_0(bytes, cur, i, how_many, res) ==
    IF i >= how_many THEN [res |-> "Ok", toc |-> res]
    ELSE LET pushed(e) ==
                 IF e.res # "Ok" THEN [res |-> e.res, toc |-> <<>>]
                 ELSE read_toc_loop_1_0(bytes, e.cur, i + 1, how_many, Append(res, e.entry))
         IN  pushed(read_toc_entry_1_0(bytes, cur))

read_toc_entries_1_0(bytes, toc_position, how_many) ==
    read_toc_loop_1_0(bytes, seek(toc_position), 0, how_many, <<>>)

\* mutant: the entries read are dropped and the table stays as it was
Unpacker_1_0_read_toc_keep(bytes, toc) ==
    LET entries(t) == [res |-> t.res, toc |-> toc]
        footer(f) ==
            IF f.res # "Ok" THEN [res |-> f.res, toc |-> toc]
            ELSE entries(read_toc_entries_1_0(bytes, f.v1, f.v2))
    IN  footer(read_footer_1_0(bytes))

\* init: the toc is replaced only when both steps succeed
Unpacker_1_0_read_toc(bytes, toc) ==
    LET entries(t) ==
            IF t.res # "Ok" THEN [res |-> t.res, toc |-> toc]
            ELSE [res |-> "Ok", toc |-> t.toc]
        footer(f) ==
            IF f.res # "Ok" THEN [res |-> f.res, toc |-> toc]
            ELSE entries(read_toc_entries_1_0(bytes, f.v1, f.v2))
    IN  footer(read_footer_1_0(bytes))

RECURSIVE Unpacker_1_0_read_record_from(_, _, _, _)
Unpacker_1_0_read_record_from(bytes, toc, name, i) ==
    IF i > Len(toc) THEN [res |-> "Ok", some |-> FALSE, rec |-> Record_new(name, <<>>)]
    ELSE IF name = toc[i][3]
    THEN LET d == read_record_1_0(bytes, toc[i][1], toc[i][2])
         IN  IF d.res # "Ok"
             THEN [res |-> d.res, some |-> FALSE, rec |-> Record_new(name, <<>>)]
             ELSE [res |-> "Ok", some |-> TRUE, rec |-> Record_new(name, d.data)]
    ELSE Unpacker_1_0_read_record_from(bytes, toc, name, i + 1)

\* mutant: the lookup starts at the last entry of the table
Unpacker_1_0_read_record_last(bytes, toc, name) ==
    Unpacker_1_0_read_record_from(bytes, toc, name, IF toc = <<>> THEN 1 ELSE Len(toc))

Unpacker_1_0_read_record(bytes, toc, name) ==
    Unpacker_1_0_read_record_from(bytes, toc, name, 1)

(***************************************************************************)
(* readers::ver_1_1                                                        *)
(* The reader of the current format, as the format description states it:  *)
(* the 1.0 reader with 64-bit fields, a 16-byte footer, and an             *)
(* invalid-file error for every field that cannot be read in full or is    *)
(* not a valid name.  The toc is a sequence of <<pos, len, name>>.         *)
(***************************************************************************)
Unpacker_1_1_from_reader == <<>>

\* exactly n bytes at pos, or fewer when the input ends first
read_at(bytes, pos, n) ==
    LET inner == IF pos >= Len(bytes) THEN 0 ELSE Len(bytes) - pos
        got == Min(n, inner)
    IN  [n |-> got,
         data |-> IF got = 0 THEN <<>> ELSE SubSeq(bytes, pos + 1, pos + got),
         pos |-> pos + got]

read_footer_1_1(bytes) ==
    IF Len(bytes) < 16
    THEN [res |-> "InvalidFileError", v1 |-> 0, v2 |-> 0]
    ELSE LET r == read_at(bytes, Len(bytes) - 16, 16)
         IN  [res |-> "Ok",
              v1 |-> from_le_bytes(SubSeq(r.data, 1, 8)),
              v2 |-> from_le_bytes(SubSeq(r.data, 9, 16))]

read_record_1_1(bytes, pos, len) ==
    LET r == read_at(bytes, pos, len)
    IN  IF r.n # len
        THEN [res |-> "InvalidFileError", data |-> <<>>]
        ELSE [res |-> "Ok", data |-> r.data]

RECURSIVE read_toc_loop_1_1(_, _, _, _, _)
read_toc_loop_1_1(bytes, pos, i, how_many, res) ==
    IF i >= how_many THEN [res |-> "Ok", toc |-> res]
    ELSE
    LET invalid == [res |-> "InvalidFileError", toc |-> <<>>]
        got_name_len(r1, r2, r3) ==
            LET str_len == from_le_bytes(r3.data)
                got_name(r4) ==
                    IF r4.n # str_len THEN invalid
                    ELSE IF ~is_utf8(r4.data) THEN invalid
                    ELSE read_toc_loop_1_1(bytes, r4.pos, i + 1, how_many,
                             Append(res, <<from_le_bytes(r1.data), from_le_bytes(r2.data),
                                           r4.data>>))
            IN  IF r3.n # 1 THEN invalid
                ELSE got_name(read_at(bytes, r3.pos, str_len))
        got_len(r1, r2) ==
            IF r2.n # U64_SIZE THEN invalid
            ELSE got_name_len(r1, r2, read_at(bytes, r2.pos, 1))
        got_pos(r1) ==
            IF r1.n # U64_SIZE THEN invalid
            ELSE got_len(r1, read_at(bytes, r1.pos, U64_SIZE))
    IN  got_pos(read_at(bytes, pos, U64_SIZE))

read_toc_entries_1_1(bytes, toc_position, how_many) ==
    read_toc_loop_1_1(bytes, toc_position, 0, how_many, <<>>)

Unpacker_1_1_read_toc(bytes, toc) ==
    LET entries(t) ==
            IF t.res # "Ok" THEN [res |-> t.res, toc |-> toc]
            ELSE [res |-> "Ok", toc |-> t.toc]
        footer(f) ==
            IF f.res # "Ok" THEN [res |-> f.res, toc |-> toc]
            ELSE entries(read_toc_entries_1_1(bytes, f.v1, f.v2))
    IN  footer(read_footer_1_1(bytes))

RECURSIVE Unpacker_1_1_read_record_from(_, _, _, _)
Unpacker_1_1_read_record_from(bytes, toc, name, i) ==
    IF i > Len(toc) THEN [res |-> "Ok", some |-> FALSE, rec |-> Record_new(name, <<>>)]
    ELSE IF name = toc[i][3]
    THEN LET d == read_record_1_1(bytes, toc[i][1], toc[i][2])
         IN  IF d.res # "Ok"
             THEN [res |-> d.res, some |-> FALSE, rec |-> Record_new(name, <<>>)]
             ELSE [res |-> "Ok", some |-> TRUE, rec |-> Record_new(name, d.data)]
    ELSE Unpacker_1_1_read_record_from(bytes, toc, name, i + 1)

Unpacker_1_1_read_record(bytes, toc, name) ==
    Unpacker_1_1_read_record_from(bytes, toc, name, 1)

\* VersionedUnpacker: the two methods of the reader of version ver
VersionedUnpacker_init(ver, bytes, toc) ==
    IF ver = <<1, 0>> THEN Unpacker_1_0_read_toc(bytes, toc)
    ELSE Unpacker_1_1_read_toc(bytes, toc)

VersionedUnpacker_read_record(ver, bytes, toc, name) ==
    IF ver = <<1, 0>> THEN Unpacker_1_0_read_record(bytes, toc, name)
    ELSE Unpacker_1_1_read_record(bytes, toc, name)

(***************************************************************************)
(* readers: read_header and get_unpacker                                   *)
(***************************************************************************)
\* r.rewind(): the cursor the reader had is given up
rewind(cur) == seek(0)

\* mutant: the header is read from wherever the cursor is
read_header_no_rewind(bytes, cur) ==
    LET invalid(c) == [res |-> "InvalidFileError", version |-> <<0, 0>>, cur |-> c]
        version(r2) ==
            IF r2.n # 2 THEN invalid(r2.cur)
            ELSE [res |-> "Ok", version |-> <<r2.data[1], r2.data[2]>>, cur |-> r2.cur]
        magic(r1) ==
            IF r1.n # 4 THEN invalid(r1.cur)
            ELSE IF ~is_utf8(r1.data) THEN invalid(r1.cur)
            ELSE IF r1.data # FILE_TYPE THEN invalid(r1.cur)
            ELSE version(BufReader_read(bytes, r1.cur, 2))
    IN  magic(BufReader_read(bytes, cur, 4))

\* mutant: the magic is decoded but not compared with FILE_TYPE
read_header_any_magic(bytes, cur) ==
    LET invalid(c) == [res |-> "InvalidFileError", version |-> <<0, 0>>, cur |-> c]
        version(r2) ==
            IF r2.n # 2 THEN invalid(r2.cur)
            ELSE [res |-> "Ok", version |-> <<r2.data[1], r2.data[2]>>, cur |-> r2.cur]
        magic(r1) ==
            IF r1.n # 4 THEN invalid(r1.cur)
            ELSE IF ~is_utf8(r1.data) THEN invalid(r1.cur)
            ELSE version(BufReader_read(bytes, r1.cur, 2))
    IN  magic(BufReader_read(bytes, rewind(cur), 4))

\* cur is the reader's cursor before the call, the cur of the result the one
\* after it
read_header(bytes, cur) ==
    LET invalid(c) == [res |-> "InvalidFileError", version |-> <<0, 0>>, cur |-> c]
        version(r2) ==
            IF r2.n # 2 THEN invalid(r2.cur)
            ELSE [res |-> "Ok", version |-> <<r2.data[1], r2.data[2]>>, cur |-> r2.cur]
        magic(r1) ==
            IF r1.n # 4 THEN invalid(r1.cur)
            ELSE IF ~is_utf8(r1.data) THEN invalid(r1.cur)
            ELSE IF r1.data # FILE_TYPE THEN invalid(r1.cur)
            ELSE version(BufReader_read(bytes, r1.cur, 2))
    IN  magic(BufReader_read(bytes, rewind(cur), 4))

\* mutant: a version that is not known is read by the 1.1 reader
get_unpacker_fallback(bytes, cur) ==
    LET header(h) ==
            IF h.res # "Ok"
            THEN [res |-> h.res, ver |-> <<0, 0>>, named |-> <<>>, cur |-> h.cur]
            ELSE IF h.version = <<1, 0>>
            THEN [res |-> "Ok", ver |-> <<1, 0>>, named |-> <<>>, cur |-> h.cur]
            ELSE [res |-> "Ok", ver |-> <<1, 1>>, named |-> <<>>, cur |-> h.cur]
    IN  header(read_header(bytes, cur))

\* ver names the reader that is returned, named the pair the error message
\* gives
get_unpacker(bytes, cur) ==
    LET header(h) ==
            IF h.res # "Ok"
            THEN [res |-> h.res, ver |-> <<0, 0>>, named |-> <<>>, cur |-> h.cur]
            ELSE IF h.version = <<1, 0>>
            THEN [res |-> "Ok", ver |-> <<1, 0>>, named |-> <<>>, cur |-> h.cur]
            ELSE IF h.version = <<1, 1>>
            THEN [res |-> "Ok", ver |-> <<1, 1>>, named |-> <<>>, cur |-> h.cur]
            ELSE [res |-> "InvalidFileError", ver |-> <<0, 0>>, named |-> h.version,
                  cur |-> h.cur]
    IN  header(read_header(bytes, cur))

(***************************************************************************)
(* lib.rs.  A path holds a file [exists, bytes].  Each operator is the     *)
(* whole call: res is "Ok", the error kind returned, or "panic"; file is   *)
(* the file at the path when the call is over.  The BufWriter is flushed   *)
(* when it is dropped, also when the drop happens while a panic unwinds.   *)
(***************************************************************************)
\* for record in records { writer.write_record(record)?; }
RECURSIVE write_records(_, _, _, _)
write_records(p, w, records, i) ==
    IF i > Len(records) THEN [res |-> "Ok", p |-> p, sink |-> w]
    ELSE LET written(r) ==
                 IF r.res # "Ok" THEN r
                 ELSE write_records(r.p, r.sink, records, i + 1)
         IN  written(Packer_1_1_write_record(p, w, records[i]))

\* the end of a packing call: the early return drops the writer, close consumes it
finish_packing(l) ==
    LET closed(c) ==
            [res |-> IF Packer_1_1_drop(c.p) = "panic" THEN "panic" ELSE c.res,
             file |-> [exists |-> TRUE, bytes |-> c.sink.bytes]]
    IN  IF l.res # "Ok"
        THEN [res |-> IF Packer_1_1_drop(l.p) = "panic" THEN "panic" ELSE l.res,
              file |-> [exists |-> TRUE, bytes |-> l.sink.bytes]]
        ELSE closed(Packer_1_1_close(l.p, l.sink))

\* OpenOptions::new().create(true).write(true): an existing file is kept
\* and written from byte 0
pack_records(f, records) ==
    LET w0 == [bytes |-> IF f.exists THEN f.bytes ELSE <<>>, cur |-> 0, append |-> FALSE]
        header(h) ==
            IF Packer_1_1_drop(h.self) = "panic"
            THEN [res |-> "panic", file |-> [exists |-> TRUE, bytes |-> h.sink.bytes]]
            ELSE finish_packing(write_records(h.next, h.sink, records, 1))
    IN  header(Packer_1_1_write_header(Packer_1_1_from_writer, w0))

\* for (record_name, path) in pack_from: the file at path is opened and read,
\* then written as a record; disk gives the file at each path
RECURSIVE write_files(_, _, _, _, _)
write_files(p, w, pack_from, disk, i) ==
    IF i > Len(pack_from) THEN [res |-> "Ok", p |-> p, sink |-> w]
    ELSE LET written(r) ==
                 IF r.res # "Ok" THEN r
                 ELSE write_files(r.p, r.sink, pack_from, disk, i + 1)
             file_at == disk[pack_from[i][2]]
         IN  IF ~file_at.exists THEN [res |-> "IoError", p |-> p, sink |-> w]
             ELSE written(Packer_1_1_write_record(p, w,
                              Record_new(pack_from[i][1], file_at.bytes)))

pack_files(f, pack_from, disk) ==
    LET w0 == [bytes |-> IF f.exists THEN f.bytes ELSE <<>>, cur |-> 0, append |-> FALSE]
        header(h) ==
            IF Packer_1_1_drop(h.self) = "panic"
            THEN [res |-> "panic", file |-> [exists |-> TRUE, bytes |-> h.sink.bytes]]
            ELSE finish_packing(write_files(h.next, h.sink, pack_from, disk, 1))
    IN  header(Packer_1_1_write_header(Packer_1_1_from_writer, w0))

\* VersionedUnpacker::inspect_toc: the entries of the table, in order, with
\* 64-bit positions and sizes
inspect_toc(toc) == toc

\* Packer::append_mode: the record-phase writer of an update, positioned at
\* pos and seeded with the given table; nothing is written
Packer_1_1_append_mode(p, toc, pos, version) ==
    [res |-> "Ok",
     self |-> [p EXCEPT !.writer = FALSE, !.toc_some = FALSE, !.toc = <<>>],
     next |-> [pos |-> pos, writer |-> TRUE, toc_some |-> TRUE, toc |-> toc]]

\* mutant: the file is opened with write(true) instead of append(true)
pack_records_update_from_start(f, records) ==
    LET file_size == Len(f.bytes)
        w0 == [bytes |-> f.bytes, cur |-> 0, append |-> FALSE]
        initial_toc(old_toc) ==
            [i \in 1..Len(old_toc) |->
                TocEntry_new(old_toc[i][3], old_toc[i][1], old_toc[i][2])]
        append(a) ==
            IF a.res # "Ok" THEN [res |-> a.res, file |-> f]
            ELSE finish_packing(write_records(a.next, w0, records, 1))
        initialised(version, init) ==
            IF init.res # "Ok" THEN [res |-> init.res, file |-> f]
            ELSE append(Packer_1_1_append_mode(Packer_1_1_from_writer,
                                               initial_toc(inspect_toc(init.toc)),
                                               file_size, version.version))
        dispatched(version, unpacker) ==
            IF unpacker.res # "Ok" THEN [res |-> unpacker.res, file |-> f]
            ELSE initialised(version, VersionedUnpacker_init(unpacker.ver, f.bytes, <<>>))
        header(version) ==
            IF version.res # "Ok" THEN [res |-> version.res, file |-> f]
            ELSE dispatched(version, get_unpacker(f.bytes, version.cur))
    IN  IF ~f.exists THEN [res |-> "IoError", file |-> f]
        ELSE header(read_header(f.bytes, seek(0)))

pack_records_update(f, records) ==
    LET file_size == Len(f.bytes)
        w0 == [bytes |-> f.bytes, cur |-> 0, append |-> TRUE]
        initial_toc(old_toc) ==
            [i \in 1..Len(old_toc) |->
                TocEntry_new(old_toc[i][3], old_toc[i][1], old_toc[i][2])]
        append(a) ==
            IF a.res # "Ok" THEN [res |-> a.res, file |-> f]
            ELSE finish_packing(write_records(a.next, w0, records, 1))
        initialised(version, init) ==
            IF init.res # "Ok" THEN [res |-> init.res, file |-> f]
            ELSE append(Packer_1_1_append_mode(Packer_1_1_from_writer,
                                               initial_toc(inspect_toc(init.toc)),
                                               file_size, version.version))
        dispatched(version, unpacker) ==
            IF unpacker.res # "Ok" THEN [res |-> unpacker.res, file |-> f]
            ELSE initialised(version, VersionedUnpacker_init(unpacker.ver, f.bytes, <<>>))
        header(version) ==
            IF version.res # "Ok" THEN [res |-> version.res, file |-> f]
            ELSE dispatched(version, get_unpacker(f.bytes, version.cur))
    IN  IF ~f.exists THEN [res |-> "IoError", file |-> f]
        ELSE header(read_header(f.bytes, seek(0)))

RECURSIVE unpack_loop(_, _, _, _, _, _, _)
unpack_loop(ver, bytes, toc, names, i, found, notfound) ==
    IF i > Len(names) THEN [res |-> "Ok", found |-> found, notfound |-> notfound]
    ELSE LET looked(r) ==
                 IF r.res # "Ok" THEN [res |-> r.res, found |-> <<>>, notfound |-> <<>>]
                 ELSE IF r.some
                 THEN unpack_loop(ver, bytes, toc, names, i + 1, Append(found, r.rec),
                                  notfound)
                 ELSE unpack_loop(ver, bytes, toc, names, i + 1, found,
                                  Append(notfound, names[i]))
         IN  looked(VersionedUnpacker_read_record(ver, bytes, toc, names[i]))

\* mutant: the names that are not found are dropped
unpack_records_drop_missing(f, names) ==
    LET failed(res) == [res |-> res, found |-> <<>>, notfound |-> <<>>]
        looped(l) == [l EXCEPT !.notfound = <<>>]
        initialised(unpacker, init) ==
            IF init.res # "Ok" THEN failed(init.res)
            ELSE looped(unpack_loop(unpacker.ver, f.bytes, init.toc, names, 1, <<>>, <<>>))
        dispatched(unpacker) ==
            IF unpacker.res # "Ok" THEN failed(unpacker.res)
            ELSE initialised(unpacker, VersionedUnpacker_init(unpacker.ver, f.bytes, <<>>))
    IN  IF ~f.exists THEN failed("IoError")
        ELSE dispatched(get_unpacker(f.bytes, seek(0)))

unpack_records(f, names) ==
    LET failed(res) == [res |-> res, found |-> <<>>, notfound |-> <<>>]
        initialised(unpacker, init) ==
            IF init.res # "Ok" THEN failed(init.res)
            ELSE unpack_loop(unpacker.ver, f.bytes, init.toc, names, 1, <<>>, <<>>)
        dispatched(unpacker) ==
            IF unpacker.res # "Ok" THEN failed(unpacker.res)
            ELSE initialised(unpacker, VersionedUnpacker_init(unpacker.ver, f.bytes, <<>>))
    IN  IF ~f.exists THEN failed("IoError")
        ELSE dispatched(get_unpacker(f.bytes, seek(0)))

(***************************************************************************)
(* The inputs of the model.                                                *)
(***************************************************************************)
\* k times the two-byte character U+00E9
Repeat(k) == [i \in 1..(2 * k) |-> IF i % 2 = 1 THEN 195 ELSE 169]

NameA == <<97>>
NameB == <<98>>
NameC == <<99>>
NameEmpty == <<>>
\* 127 two-byte characters and one ASCII character: 255 bytes, 128 characters
Name255 == Repeat(127) \o <<120>>
\* 128 two-byte characters: 256 bytes, 128 characters
Name256 == Repeat(128)

SessNames == {NameA, NameB, NameEmpty, Name255, Name256}
\* the records a session may be asked to write
SessRecords ==
    { Record_new(NameA, <<18, 52, 86>>), Record_new(NameA, <<135, 101>>),
      Record_new(NameA, <<>>), Record_new(NameB, <<135, 101>>),
      Record_new(NameEmpty, <<>>), Record_new(Name255, <<18, 52, 86>>),
      Record_new(Name256, <<135, 101>>) }
Versions == {<<1, 0>>, <<1, 1>>}

NoPacker == [pos |-> 0, toc |-> <<>>]
NoRecord == Record_new(<<>>, <<>>)
NoDrop == [who |-> "none", ver |-> <<0, 0>>, handed |-> FALSE, closed |-> FALSE,
           pending |-> 0, res |-> "none"]
NoRead == [op |-> "none", name |-> <<>>, res |-> "none", some |-> FALSE, rec |-> NoRecord]
NoQuery == [names |-> <<>>, found |-> <<>>, notfound |-> <<>>]
NoFile == [exists |-> FALSE, bytes |-> <<>>]
NoHeader == [op |-> "none", res |-> "none", version |-> <<0, 0>>, named |-> <<>>,
             from |-> 0, prev |-> <<>>]

NoCli == [op |-> "none", args |-> <<>>, to |-> <<>>, res |-> "none", help |-> FALSE,
          notfound |-> <<>>, before |-> <<>>]

\* no second reader
PeerIdle ==
    /\ peer = [st |-> "none", ver |-> <<0, 0>>, toc |-> <<>>]
    /\ pres = NoRead

\* no program was run and no path matters
ProgramIdle ==
    /\ fs = <<>>
    /\ cli = NoCli

\* a panic ends the program
Dead == wres = "panic" \/ rres.res = "panic"

\* the write_record calls of the session that were accepted
Accepted == SelectSeq(log, LAMBDA e : e.res = "Ok")

(***************************************************************************)
(* Spec: one writer session and one reader session.                        *)
(***************************************************************************)
\* no packer and no reader exist yet
SessionIdle ==
    /\ sink = [bytes |-> <<>>, cur |-> 0, append |-> FALSE]
    /\ hp = [st |-> "none", ver |-> <<0, 0>>, p |-> NoPacker]
    /\ rp = [st |-> "none", p |-> NoPacker]
    /\ wres = "none"
    /\ log = <<>>
    /\ lastdrop = NoDrop
    /\ rd = [st |-> "none", ver |-> <<0, 0>>, toc |-> <<>>]
    /\ rres = NoRead

\* no bytes were handed to read_header or get_unpacker, there is no second
\* reader, and no program was run
InputIdle ==
    /\ origin = "none"
    /\ rcur = seek(0)
    /\ hres = NoHeader
    /\ PeerIdle
    /\ ProgramIdle

Init ==
    /\ SessionIdle
    /\ InputIdle
    /\ file = NoFile
    /\ hist = <<>>
    /\ fres = "none"
    /\ query = NoQuery

\* Packer::from_writer on a fresh Cursor
FromWriter(ver) ==
    /\ ~Dead
    /\ hp.st = "none"
    /\ hp' = [st |-> "live", ver |-> ver,
              p |-> IF ver = <<1, 1>> THEN Packer_1_1_from_writer
                    ELSE Packer_1_0_from_writer]
    /\ wres' = "Ok"
    /\ UNCHANGED <<sink, rp, log, lastdrop, rd, rres>>
    /\ UNCHANGED <<libvars, inputvars, peervars, clivars>>

\* write_header: 1.1 borrows the HeaderStep packer, 1.0 consumes it
WriteHeader ==
    /\ ~Dead
    /\ hp.st = "live"
    /\ rd.st = "none"
    /\ IF hp.ver = <<1, 1>>
       THEN LET r == Packer_1_1_write_header(hp.p, sink)
            IN  /\ wres' = r.res
                /\ hp' = [hp EXCEPT !.p = r.self]
                /\ sink' = r.sink
                /\ rp' = IF r.res = "Ok" THEN [st |-> "live", p |-> r.next] ELSE rp
       ELSE LET r == Packer_1_0_write_header(hp.p, sink)
            IN  /\ wres' = r.res
                /\ hp' = [hp EXCEPT !.st = "moved"]
                /\ sink' = r.sink
                /\ rp' = [st |-> "live", p |-> r.next]
    /\ UNCHANGED <<log, lastdrop, rd, rres>>
    /\ UNCHANGED <<libvars, inputvars, peervars, clivars>>

WriteRecord(record) ==
    /\ ~Dead
    /\ rp.st = "live"
    /\ Len(log) < MaxWrites
    /\ \E r \in IF hp.ver = <<1, 1>> THEN {Packer_1_1_write_record(rp.p, sink, record)}
                ELSE Packer_1_0_write_record_builds(rp.p, sink, record) :
           /\ wres' = r.res
           /\ rp' = [rp EXCEPT !.p = r.p]
           /\ sink' = r.sink
           /\ log' = Append(log, [record |-> record, res |-> r.res,
                                  before |-> [pos |-> rp.p.pos, toc |-> rp.p.toc,
                                              bytes |-> sink.bytes]])
    /\ UNCHANGED <<hp, lastdrop, rd, rres>>
    /\ UNCHANGED <<libvars, inputvars, peervars, clivars>>

\* close consumes the packer: self is dropped when close returns
Close ==
    /\ ~Dead
    /\ rp.st = "live"
    /\ IF hp.ver = <<1, 1>>
       THEN LET r == Packer_1_1_close(rp.p, sink)
                d == Packer_1_1_drop(r.p)
            IN  /\ wres' = IF d = "panic" THEN "panic" ELSE r.res
                /\ rp' = [st |-> IF r.res = "Ok" THEN "closed" ELSE "failed", p |-> r.p]
                /\ sink' = r.sink
                /\ lastdrop' = [who |-> "record", ver |-> hp.ver, handed |-> FALSE,
                                closed |-> TRUE, pending |-> Len(Accepted), res |-> d]
       ELSE LET r == Packer_1_0_close(rp.p, sink)
            IN  /\ wres' = r.res
                /\ rp' = [st |-> IF r.res = "Ok" THEN "closed" ELSE "failed", p |-> r.p]
                /\ sink' = r.sink
                /\ lastdrop' = [who |-> "record", ver |-> hp.ver, handed |-> FALSE,
                                closed |-> TRUE, pending |-> Len(Accepted), res |-> "Ok"]
    /\ UNCHANGED <<hp, log, rd, rres>>
    /\ UNCHANGED <<libvars, inputvars, peervars, clivars>>

\* the HeaderStep packer goes out of scope
DropHeaderPacker ==
    /\ ~Dead
    /\ hp.st = "live"
    /\ LET d == IF hp.ver = <<1, 1>> THEN Packer_1_1_drop(hp.p) ELSE "Ok"
       IN  /\ wres' = d
           /\ lastdrop' = [who |-> "header", ver |-> hp.ver, handed |-> rp.st # "none",
                           closed |-> FALSE, pending |-> 0, res |-> d]
    /\ hp' = [hp EXCEPT !.st = "dropped"]
    /\ UNCHANGED <<sink, rp, log, rd, rres>>
    /\ UNCHANGED <<libvars, inputvars, peervars, clivars>>

\* the RecordStep packer goes out of scope without close
DropRecordPacker ==
    /\ ~Dead
    /\ rp.st = "live"
    /\ LET d == IF hp.ver = <<1, 1>> THEN Packer_1_1_drop(rp.p) ELSE "Ok"
       IN  /\ wres' = d
           /\ lastdrop' = [who |-> "record", ver |-> hp.ver, handed |-> FALSE,
                           closed |-> FALSE, pending |-> Len(Accepted), res |-> d]
    /\ rp' = [rp EXCEPT !.st = "dropped"]
    /\ UNCHANGED <<sink, hp, log, rd, rres>>
    /\ UNCHANGED <<libvars, inputvars, peervars, clivars>>

\* the sink is free for a reader once no packer holds the writer
WriterGone ==
    /\ hp.st \in {"dropped", "moved"}
    /\ rp.st \in {"none", "closed", "failed", "dropped"}

\* Unpacker::from_reader of either version on the bytes of the sink
FromReader(ver) ==
    /\ ~Dead
    /\ WriterGone
    /\ rd.st = "none"
    /\ rd' = [st |-> "new", ver |-> ver,
              toc |-> IF ver = <<1, 0>> THEN Unpacker_1_0_from_reader
                      ELSE Unpacker_1_1_from_reader]
    /\ UNCHANGED <<sink, hp, rp, wres, log, lastdrop, rres>>
    /\ UNCHANGED <<libvars, inputvars, peervars, clivars>>

ReaderInit ==
    /\ ~Dead
    /\ rd.st = "new"
    /\ LET r == VersionedUnpacker_init(rd.ver, sink.bytes, rd.toc)
       IN  /\ rd' = [rd EXCEPT !.st = IF r.res = "Ok" THEN "init" ELSE "failed",
                               !.toc = r.toc]
           /\ rres' = [NoRead EXCEPT !.op = "init", !.res = r.res]
    /\ UNCHANGED <<sink, hp, rp, wres, log, lastdrop>>
    /\ UNCHANGED <<libvars, inputvars, peervars, clivars>>

ReadRecord(name) ==
    /\ ~Dead
    /\ rd.st \in {"new", "init", "failed"}
    /\ LET r == VersionedUnpacker_read_record(rd.ver, sink.bytes, rd.toc, name)
       IN  rres' = [op |-> "read_record", name |-> name, res |-> r.res,
                    some |-> r.some, rec |-> r.rec]
    /\ UNCHANGED <<sink, hp, rp, wres, log, lastdrop, rd>>
    /\ UNCHANGED <<libvars, inputvars, peervars, clivars>>

Next ==
    \/ \E ver \in Versions : FromWriter(ver)
    \/ WriteHeader
    \/ \E record \in SessRecords : WriteRecord(record)
    \/ Close
    \/ DropHeaderPacker
    \/ DropRecordPacker
    \/ \E ver \in Versions : FromReader(ver)
    \/ ReaderInit
    \/ \E name \in SessNames : ReadRecord(name)

Spec == Init /\ [][Next]_vars

(***************************************************************************)
(* SpecSize: a 1.0 writer session that is also handed records of more than *)
(* u32::MAX bytes, or of so many bytes that the 32-bit cursor cannot be     *)
(* advanced by them.  The data of such a record is not spelled out: the    *)
(* record carries the length as the 8 bytes of the usize, and the sink of  *)
(* the model does not show the bytes of a record of this kind that is      *)
(* written.                                                                *)
(***************************************************************************)
TooBig(len) == [name |-> NameC, data |-> <<>>, len |-> len]

\* 2^32, 2^32 + 5 and 2^40 bytes, which no u32 holds, and 2^32 - 1 and
\* 2^32 - 6 bytes, which a u32 holds but no cursor past the header can add
SizedRecords ==
    SessRecords \cup {TooBig(<<0, 0, 0, 0, 1, 0, 0, 0>>), TooBig(<<5, 0, 0, 0, 1, 0, 0, 0>>),
                      TooBig(<<0, 0, 0, 0, 0, 1, 0, 0>>),
                      TooBig(<<255, 255, 255, 255, 0, 0, 0, 0>>),
                      TooBig(<<250, 255, 255, 255, 0, 0, 0, 0>>)}

NextSize ==
    \/ FromWriter(<<1, 0>>)
    \/ WriteHeader
    \/ \E record \in SizedRecords : WriteRecord(record)
    \/ Close
    \/ DropRecordPacker

SpecSize == Init /\ [][NextSize]_vars

(***************************************************************************)
(* SpecLib: the calls of lib.rs on one path.  hist[1] tells what is at the *)
(* path before the first call; every later entry is one packing call with  *)
(* its records, its result and the file it found.                          *)
(***************************************************************************)
SeqsUpTo(S, n) == UNION {[1..k -> S] : k \in 0..n}

LibRecords ==
    { Record_new(NameA, <<1, 2>>), Record_new(NameB, <<3>>),
      Record_new(NameA, <<9>>), Record_new(Name256, <<7>>) }

\* the names asked for; NameEmpty is never packed
QNames == {NameA, NameB, NameEmpty}

LegacyRecord == Record_new(NameC, <<4, 5>>)
StaleRecord == Record_new(NameC, [i \in 1..64 |-> 7])

\* a version 1.0 container, written by the 1.0 writer
LegacyFile ==
    LET closed(c) == [exists |-> TRUE, bytes |-> c.sink.bytes]
        written(r) == closed(Packer_1_0_close(r.p, r.sink))
        header(h) == written(Packer_1_0_write_record(h.next, h.sink, LegacyRecord))
    IN  header(Packer_1_0_write_header(Packer_1_0_from_writer,
                                       [bytes |-> <<>>, cur |-> 0, append |-> FALSE]))

\* a container left at the path by an earlier pack_records
StaleFile == pack_records(NoFile, <<StaleRecord>>).file

\* files no update accepts: a wrong magic, an unsupported version, a header
\* with no footer, a table shorter than the footer counts, a name that is not
\* UTF-8
BrokenFiles ==
    {<<88, 77, 80, 76, 1, 1>> \o to_le_bytes(6, 8) \o to_le_bytes(0, 8),
     <<83, 77, 80, 76, 2, 0>> \o to_le_bytes(6, 8) \o to_le_bytes(0, 8),
     <<83, 77, 80, 76, 1, 1>>,
     <<83, 77, 80, 76, 1, 0>>,
     <<83, 77, 80, 76, 1, 1, 4, 5>> \o to_le_bytes(6, 8) \o to_le_bytes(2, 8)
         \o <<1>> \o NameC \o to_le_bytes(8, 8) \o to_le_bytes(2, 8),
     <<83, 77, 80, 76, 1, 0, 4, 5>> \o to_le_bytes(6, 4) \o to_le_bytes(2, 4)
         \o <<1>> \o NameC \o to_le_bytes(8, 4) \o to_le_bytes(2, 4),
     <<83, 77, 80, 76, 1, 0, 4, 5>> \o to_le_bytes(6, 4) \o to_le_bytes(2, 4)
         \o <<1, 255>> \o to_le_bytes(8, 4) \o to_le_bytes(1, 4)}

Existing ==
    { [op |-> "existing", records |-> <<>>, res |-> "absent", before |-> NoFile],
      [op |-> "existing", records |-> <<LegacyRecord>>, res |-> "legacy",
       before |-> LegacyFile],
      [op |-> "existing", records |-> <<StaleRecord>>, res |-> "stale",
       before |-> StaleFile] }
    \cup { [op |-> "existing", records |-> <<>>, res |-> "broken",
            before |-> [exists |-> TRUE, bytes |-> b]] : b \in BrokenFiles }

RECURSIVE HistRecords(_)
HistRecords(from) ==
    IF from > Len(hist) THEN <<>> ELSE hist[from].records \o HistRecords(from + 1)

NamesOf(records) == [i \in 1..Len(records) |-> records[i].name]

Updates == Len(SelectSeq(hist, LAMBDA h : h.op = "update"))

InitLib ==
    /\ SessionIdle
    /\ InputIdle
    /\ \E e \in Existing :
          /\ hist = <<e>>
          /\ file = e.before
    /\ fres = "none"
    /\ query = NoQuery

PackRecords(records) ==
    /\ fres = "none"
    /\ Len(hist) = 1
    /\ Len(HistRecords(2)) + Len(records) <= MaxRecs
    /\ LET r == pack_records(file, records)
       IN  /\ file' = r.file
           /\ hist' = Append(hist, [op |-> "pack", records |-> records, res |-> r.res,
                                    before |-> file])
    /\ fres' = "none"
    /\ query' = NoQuery
    /\ UNCHANGED <<sessvars, inputvars, peervars, clivars>>

PackRecordsUpdate(records) ==
    /\ fres = "none"
    /\ Updates < MaxUpdates
    /\ Len(HistRecords(2)) + Len(records) <= MaxRecs
    /\ LET r == pack_records_update(file, records)
       IN  /\ file' = r.file
           /\ hist' = Append(hist, [op |-> "update", records |-> records, res |-> r.res,
                                    before |-> file])
    /\ fres' = "none"
    /\ query' = NoQuery
    /\ UNCHANGED <<sessvars, inputvars, peervars, clivars>>

\* unpack_records leaves the file as it is: it is the last call of a run
UnpackRecords(names) ==
    /\ fres = "none"
    /\ LET r == unpack_records(file, names)
       IN  /\ fres' = r.res
           /\ query' = [names |-> names, found |-> r.found, notfound |-> r.notfound]
    /\ UNCHANGED <<file, hist>>
    /\ UNCHANGED <<sessvars, inputvars, peervars, clivars>>

NextLib ==
    \/ \E records \in SeqsUpTo(LibRecords, MaxRecs) : PackRecords(records)
    \/ \E records \in SeqsUpTo(LibRecords, MaxRecs) : PackRecordsUpdate(records)
    \/ \E names \in SeqsUpTo(QNames, MaxQuery) \cup
                    {NamesOf(HistRecords(1)), NamesOf(HistRecords(2))} :
          UnpackRecords(names)

SpecLib == InitLib /\ [][NextLib]_vars

(***************************************************************************)
(* SpecInput: read_header, get_unpacker and the readers on given bytes:    *)
(* outputs of the writers and of the packing calls, headers that are cut   *)
(* or wrong, and containers whose footer or table does not fit the file.   *)
(***************************************************************************)
LibraryIdle ==
    /\ file = NoFile
    /\ hist = <<>>
    /\ fres = "none"
    /\ query = NoQuery

EmptySink == [bytes |-> <<>>, cur |-> 0, append |-> FALSE]

\* the files pack_files reads: "p2" is empty, "p3" does not exist
InputDisk ==
    [path \in {"p1", "p2", "p3"} |->
        IF path = "p1" THEN [exists |-> TRUE, bytes |-> <<1, 2>>]
        ELSE IF path = "p2" THEN [exists |-> TRUE, bytes |-> <<>>]
        ELSE NoFile]

\* the number of records of the large container: its table, 262 bytes an
\* entry, is longer than the buffer of a BufReader
LargeEntries == 32

\* the i-th record of the large container: a name of 253 bytes, one data byte
LargeRecord(i) == Record_new(Repeat(126) \o <<47 + i>>, <<i>>)

RECURSIVE write_large_records(_, _, _)
write_large_records(p, w, i) ==
    IF i > LargeEntries THEN [res |-> "Ok", p |-> p, sink |-> w]
    ELSE LET written(r) ==
                 IF r.res # "Ok" THEN r ELSE write_large_records(r.p, r.sink, i + 1)
         IN  written(Packer_1_0_write_record(p, w, LargeRecord(i)))

\* the container a 1.0 writer session makes of the large records
LargeFile ==
    LET closed(c) == [exists |-> TRUE, bytes |-> c.sink.bytes]
        written(l) == closed(Packer_1_0_close(l.p, l.sink))
        header(h) == written(write_large_records(h.next, h.sink, 1))
    IN  header(Packer_1_0_write_header(Packer_1_0_from_writer, EmptySink))

WrittenInputs ==
    {[origin |-> "large", bytes |-> LargeFile.bytes],
     [origin |-> "write_header_1_1", bytes |-> write_header_1_1(EmptySink).bytes],
     [origin |-> "write_header_1_0", bytes |-> write_header_1_0(EmptySink).bytes],
     [origin |-> "legacy", bytes |-> LegacyFile.bytes]}
    \cup {[origin |-> "pack_records", bytes |-> pack_records(NoFile, records).file.bytes] :
             records \in {<<>>, <<Record_new(NameA, <<1, 2>>)>>,
                          <<Record_new(NameA, <<1, 2>>), Record_new(NameC, <<3>>)>>}}
    \cup {[origin |-> "pack_files",
           bytes |-> pack_files(NoFile, pack_from, InputDisk).file.bytes] :
             pack_from \in {<<>>, <<<<NameA, "p1">>, <<NameC, "p2">>>>,
                            <<<<NameA, "p1">>, <<NameC, "p3">>>>}}

\* headers: too short, wrong magic, not UTF-8, versions of every kind
HeaderInputs ==
    {[origin |-> "header", bytes |-> b] :
        b \in {<<>>, <<83, 77>>, <<83, 77, 80>>, FILE_TYPE, FILE_TYPE \o <<1>>,
               <<88, 77, 80, 76, 1, 1>>, <<255, 77, 80, 76, 1, 1>>,
               <<83, 77, 80, 195, 1, 1>>, <<115, 109, 112, 108, 1, 0>>,
               FILE_TYPE \o <<0, 12>>, FILE_TYPE \o <<2, 0>>, FILE_TYPE \o <<1, 2>>,
               FILE_TYPE \o <<0, 1>>, FILE_TYPE \o <<1, 1, 0, 0, 0, 0>>,
               FILE_TYPE \o <<1, 0, 7, 7, 7, 7, 7, 7, 7>>}}

Width(ver) == IF ver = <<1, 0>> THEN U32_SIZE ELSE U64_SIZE
FooterSize(ver) == 2 * Width(ver)

\* one record payload and one table entry that names it as NameC; the entry
\* may lie about the length of the record or of the name
CraftedBody(ver, data_len, name_len) ==
    <<4, 5>> \o to_le_bytes(HEADER_SIZE, Width(ver)) \o to_le_bytes(data_len, Width(ver))
             \o <<name_len>> \o NameC

\* header, body and a footer for count entries that places the table region
\* bytes before the end of the file
Crafted(ver, body, region, count) ==
    LET front == FILE_TYPE \o <<ver[1], ver[2]>> \o body
    IN  front \o to_le_bytes(Len(front) + FooterSize(ver) - region, Width(ver))
              \o to_le_bytes(count, Width(ver))

Regions(ver) ==
    IF ver = <<1, 0>> THEN {0, 2, 6, 8, 9, 12, 18} ELSE {0, 3, 12, 16, 17, 20, 34}

\* one record payload and one table entry whose one-byte name is not UTF-8
CraftedBadName(ver) ==
    <<4, 5>> \o to_le_bytes(HEADER_SIZE, Width(ver)) \o to_le_bytes(2, Width(ver))
             \o <<1, 255>>

\* three payload bytes and two table entries, both named NameC: the first
\* names the bytes 4, 5 and the second the byte 6
CraftedDuplicate(ver) ==
    <<4, 5, 6>> \o to_le_bytes(HEADER_SIZE, Width(ver)) \o to_le_bytes(2, Width(ver))
                \o <<1>> \o NameC
                \o to_le_bytes(HEADER_SIZE + 2, Width(ver)) \o to_le_bytes(1, Width(ver))
                \o <<1>> \o NameC

CraftedInputs ==
    {[origin |-> "crafted",
      bytes |-> Crafted(ver, CraftedDuplicate(ver), 4 + 6 * Width(ver), 2)] :
        ver \in Versions}
    \cup
    {[origin |-> "crafted",
      bytes |-> Crafted(ver, CraftedBody(ver, b[1], b[2]), region, count)] :
        ver \in Versions, b \in {<<2, 1>>, <<100, 1>>, <<2, 200>>},
        region \in UNION {Regions(v) : v \in Versions}, count \in {1, 2}}
    \cup
    {[origin |-> "crafted",
      bytes |-> Crafted(ver, CraftedBadName(ver), 2 + 4 * Width(ver), count)] :
        ver \in Versions, count \in {1, 2}}

GivenInputs == WrittenInputs \cup HeaderInputs \cup CraftedInputs

\* the names asked for
InputNames == {NameA, NameC, NameEmpty, LargeRecord(1).name}

InitInput ==
    /\ \E i \in GivenInputs :
          /\ origin = i.origin
          /\ sink = [bytes |-> i.bytes, cur |-> 0, append |-> FALSE]
    /\ hp = [st |-> "dropped", ver |-> <<0, 0>>, p |-> NoPacker]
    /\ rp = [st |-> "none", p |-> NoPacker]
    /\ wres = "none"
    /\ log = <<>>
    /\ lastdrop = NoDrop
    /\ rd = [st |-> "none", ver |-> <<0, 0>>, toc |-> <<>>]
    /\ rres = NoRead
    /\ LibraryIdle
    /\ rcur \in {seek(0), seek(3)}
    /\ hres = NoHeader
    /\ PeerIdle
    /\ ProgramIdle

\* read_header on the BufReader over the bytes; no unpacker borrows it
ReadHeader ==
    /\ ~Dead
    /\ WriterGone
    /\ rd.st = "none"
    /\ LET returned(h) ==
               /\ hres' = [op |-> "read_header", res |-> h.res, version |-> h.version,
                           named |-> <<>>, from |-> rcur.pos,
                           prev |-> IF hres.op = "read_header"
                                    THEN <<[res |-> hres.res, version |-> hres.version]>>
                                    ELSE <<>>]
               /\ rcur' = h.cur
       IN  returned(read_header(sink.bytes, rcur))
    /\ UNCHANGED <<sessvars, libvars, origin, peervars, clivars>>

\* get_unpacker on the BufReader over the bytes: the unpacker it returns
\* borrows the reader
GetUnpacker ==
    /\ ~Dead
    /\ WriterGone
    /\ rd.st = "none"
    /\ LET returned(u) ==
               /\ hres' = [op |-> "get_unpacker", res |-> u.res, version |-> u.ver,
                           named |-> u.named, from |-> rcur.pos, prev |-> <<>>]
               /\ rcur' = u.cur
               /\ rd' = IF u.res # "Ok" THEN rd
                        ELSE [st |-> "new", ver |-> u.ver,
                              toc |-> IF u.ver = <<1, 0>> THEN Unpacker_1_0_from_reader
                                      ELSE Unpacker_1_1_from_reader]
       IN  returned(get_unpacker(sink.bytes, rcur))
    /\ UNCHANGED <<sink, hp, rp, wres, log, lastdrop, rres, libvars, origin>>
    /\ UNCHANGED <<peervars, clivars>>

NextInput ==
    \/ ReadHeader
    \/ GetUnpacker
    \/ \E ver \in Versions : FromReader(ver)
    \/ ReaderInit
    \/ \E name \in InputNames : ReadRecord(name)

SpecInput == InitInput /\ [][NextInput]_vars

(***************************************************************************)
(* SpecReaders: two reader sessions over the same unchanging bytes, each   *)
(* an Unpacker with its own table and its own BufReader, on threads of     *)
(* their own: rd with rres is one, peer with pres the other.  Their        *)
(* from_reader, init and read_record calls interleave in any order, and a  *)
(* panic ends the session it happens in.                                   *)
(***************************************************************************)
\* containers whose records are known, with the version of their writer
KnownContainers ==
    {[origin |-> "legacy", bytes |-> LegacyFile.bytes, ver |-> <<1, 0>>,
      records |-> <<LegacyRecord>>]}
    \cup {[origin |-> "pack_records", bytes |-> pack_records(NoFile, records).file.bytes,
           ver |-> <<1, 1>>, records |-> records] :
             records \in {<<>>, <<Record_new(NameA, <<1, 2>>)>>,
                          <<Record_new(NameA, <<1, 2>>), Record_new(NameC, <<3>>)>>}}

\* and inputs that make init or read_record fail: an entry longer than the
\* file, a table cut short, a name that is not UTF-8
SharedInputs ==
    {[origin |-> c.origin, bytes |-> c.bytes] : c \in KnownContainers}
    \cup {[origin |-> "crafted",
           bytes |-> Crafted(ver, CraftedBody(ver, 100, 1), 2 + 4 * Width(ver), 1)] :
             ver \in Versions}
    \cup {[origin |-> "crafted",
           bytes |-> Crafted(ver, CraftedBody(ver, 2, 1), 2 + 4 * Width(ver), 2)] :
             ver \in Versions}
    \cup {[origin |-> "crafted",
           bytes |-> Crafted(ver, CraftedBadName(ver), 2 + 4 * Width(ver), 1)] :
             ver \in Versions}

InitReaders ==
    /\ \E i \in SharedInputs :
          /\ origin = i.origin
          /\ sink = [bytes |-> i.bytes, cur |-> 0, append |-> FALSE]
    /\ hp = [st |-> "dropped", ver |-> <<0, 0>>, p |-> NoPacker]
    /\ rp = [st |-> "none", p |-> NoPacker]
    /\ wres = "none"
    /\ log = <<>>
    /\ lastdrop = NoDrop
    /\ rd = [st |-> "none", ver |-> <<0, 0>>, toc |-> <<>>]
    /\ rres = NoRead
    /\ LibraryIdle
    /\ rcur = seek(0)
    /\ hres = NoHeader
    /\ PeerIdle
    /\ ProgramIdle

PeerFromReader(ver) ==
    /\ pres.res # "panic"
    /\ WriterGone
    /\ peer.st = "none"
    /\ peer' = [st |-> "new", ver |-> ver,
                toc |-> IF ver = <<1, 0>> THEN Unpacker_1_0_from_reader
                        ELSE Unpacker_1_1_from_reader]
    /\ UNCHANGED <<sessvars, libvars, inputvars, pres, clivars>>

PeerInit ==
    /\ pres.res # "panic"
    /\ peer.st = "new"
    /\ LET r == VersionedUnpacker_init(peer.ver, sink.bytes, peer.toc)
       IN  /\ peer' = [peer EXCEPT !.st = IF r.res = "Ok" THEN "init" ELSE "failed",
                                   !.toc = r.toc]
           /\ pres' = [NoRead EXCEPT !.op = "init", !.res = r.res]
    /\ UNCHANGED <<sessvars, libvars, inputvars, clivars>>

PeerReadRecord(name) ==
    /\ pres.res # "panic"
    /\ peer.st \in {"new", "init", "failed"}
    /\ LET r == VersionedUnpacker_read_record(peer.ver, sink.bytes, peer.toc, name)
       IN  pres' = [op |-> "read_record", name |-> name, res |-> r.res,
                    some |-> r.some, rec |-> r.rec]
    /\ UNCHANGED <<sessvars, libvars, inputvars, peer, clivars>>

NextReaders ==
    \/ \E ver \in Versions : FromReader(ver)
    \/ ReaderInit
    \/ \E name \in InputNames : ReadRecord(name)
    \/ \E ver \in Versions : PeerFromReader(ver)
    \/ PeerInit
    \/ \E name \in InputNames : PeerReadRecord(name)

SpecReaders == InitReaders /\ [][NextReaders]_vars

(***************************************************************************)
(* The program: main, pack and unpack of main.rs, and unpack_files, on the *)
(* files at the paths the arguments may name.                              *)
(***************************************************************************)
\* the words an argument may be: the two verbs, a word that is no verb, the
\* container path and three words that serve as record names and as paths
Verbs == {"pack", "unpack", "list"}
Words == {"a", "c", "o"}
Paths == {"k"} \cup Words

\* the longest list of name/file arguments after the container path
MaxArgs == 4

\* str::as_bytes: the UTF-8 encoding of an argument
as_bytes(s) ==
    CASE s = "a" -> <<97>>
      [] s = "c" -> <<99>>
      [] s = "k" -> <<107>>
      [] s = "o" -> <<111>>
      [] s = "list" -> <<108, 105, 115, 116>>
      [] s = "pack" -> <<112, 97, 99, 107>>
      [] s = "unpack" -> <<117, 110, 112, 97, 99, 107>>

\* slice::chunks(2) mapped to (name, file) pairs; the length is even
chunks(args) == [i \in 1..(Len(args) \div 2) |-> <<args[2 * i - 1], args[2 * i]>>]

\* OpenOptions::new().create(true).write(true).open(outpath) followed by
\* write_all(&record.data): the file is created when absent, it is not
\* truncated, and the data go over its first bytes
write_output(disk, outpath, data) ==
    LET opened == [bytes |-> IF disk[outpath].exists THEN disk[outpath].bytes ELSE <<>>,
                   cur |-> 0, append |-> FALSE]
    IN  [disk EXCEPT ![outpath] = [exists |-> TRUE, bytes |-> write_all(opened, data).bytes]]

\* the loop of unpack_files; the reader looks at the input file as it is now
RECURSIVE unpack_files_loop(_, _, _, _, _, _, _)
unpack_files_loop(disk, infile, ver, toc, unpack_to, i, res) ==
    IF i > Len(unpack_to) THEN [res |-> "Ok", notfound |-> res, disk |-> disk]
    ELSE LET looked(r) ==
                 IF r.res # "Ok" THEN [res |-> r.res, notfound |-> <<>>, disk |-> disk]
                 ELSE IF r.some
                 THEN unpack_files_loop(write_output(disk, unpack_to[i][2], r.rec.data),
                                        infile, ver, toc, unpack_to, i + 1, res)
                 ELSE unpack_files_loop(disk, infile, ver, toc, unpack_to, i + 1,
                                        Append(res, unpack_to[i][1]))
         IN  looked(VersionedUnpacker_read_record(ver, disk[infile].bytes, toc,
                                                  as_bytes(unpack_to[i][1])))

unpack_files(disk, infile, unpack_to) ==
    LET failed(res) == [res |-> res, notfound |-> <<>>, disk |-> disk]
        initialised(unpacker, init) ==
            IF init.res # "Ok" THEN failed(init.res)
            ELSE unpack_files_loop(disk, infile, unpacker.ver, init.toc, unpack_to, 1, <<>>)
        dispatched(unpacker) ==
            IF unpacker.res # "Ok" THEN failed(unpacker.res)
            ELSE initialised(unpacker,
                             VersionedUnpacker_init(unpacker.ver, disk[infile].bytes, <<>>))
    IN  IF ~disk[infile].exists THEN failed("IoError")
        ELSE dispatched(get_unpacker(disk[infile].bytes, seek(0)))

\* what a run of the program leaves: the exit status, whether help() printed
\* the usage, the names listed after "Not found in input file:", the files
Exit(res, help, notfound, disk) ==
    [res |-> res, help |-> help, notfound |-> notfound, disk |-> disk]

\* a library error or a panic ends the program with a failure status
ExitOf(res) == IF res = "Ok" THEN "Ok" ELSE IF res = "panic" THEN "panic" ELSE "Err"

\* mutant: pack accepts any number of arguments after the output path
pack_any_count(args, disk) ==
    LET packed(outfile, r) ==
            Exit(ExitOf(r.res), FALSE, <<>>, [disk EXCEPT ![outfile] = r.file])
        pack_from(rest) == [i \in 1..Len(chunks(rest)) |->
                               <<as_bytes(chunks(rest)[i][1]), chunks(rest)[i][2]>>]
    IN  IF args = <<>> THEN Exit("Err", TRUE, <<>>, disk)
        ELSE packed(args[1], pack_files(disk[args[1]], pack_from(Tail(args)),
                        [disk EXCEPT ![args[1]] = [@ EXCEPT !.exists = TRUE]]))

pack(args, disk) ==
    LET packed(outfile, r) ==
            Exit(ExitOf(r.res), FALSE, <<>>, [disk EXCEPT ![outfile] = r.file])
        pack_from(rest) == [i \in 1..Len(chunks(rest)) |->
                               <<as_bytes(chunks(rest)[i][1]), chunks(rest)[i][2]>>]
    IN  IF args = <<>> THEN Exit("Err", TRUE, <<>>, disk)
        ELSE IF Tail(args) = <<>> \/ Len(Tail(args)) % 2 # 0
        THEN Exit("Err", TRUE, <<>>, disk)
        ELSE packed(args[1], pack_files(disk[args[1]], pack_from(Tail(args)),
                        [disk EXCEPT ![args[1]] = [@ EXCEPT !.exists = TRUE]]))

unpack(args, disk) ==
    LET unpacked(r) == Exit(ExitOf(r.res), FALSE, r.notfound, r.disk)
    IN  IF args = <<>> THEN Exit("Err", TRUE, <<>>, disk)
        ELSE IF Tail(args) = <<>> \/ Len(Tail(args)) % 2 # 0
        THEN Exit("Err", TRUE, <<>>, disk)
        ELSE unpacked(unpack_files(disk, args[1], chunks(Tail(args))))

main(args, disk) ==
    IF args = <<>> THEN Exit("Err", TRUE, <<>>, disk)
    ELSE IF args[1] = "pack" THEN pack(Tail(args), disk)
    ELSE IF args[1] = "unpack" THEN unpack(Tail(args), disk)
    ELSE Exit("Err", TRUE, <<>>, disk)

\* the argument lists: every list of at most two words, and a verb, the
\* container path and up to MaxArgs words
ArgLists ==
    SeqsUpTo(Verbs \cup Paths, 2)
    \cup {<<verb, "k">> \o rest : verb \in Verbs, rest \in SeqsUpTo(Words, MaxArgs)}

\* a container of each version at the path k, each with one record a
ContainerFiles ==
    {pack_records(NoFile, <<Record_new(as_bytes("a"), <<1, 2>>)>>).file,
     LET closed(c) == [exists |-> TRUE, bytes |-> c.sink.bytes]
         written(r) == closed(Packer_1_0_close(r.p, r.sink))
         header(h) == written(Packer_1_0_write_record(h.next, h.sink,
                                  Record_new(as_bytes("a"), <<1, 2>>)))
     IN  header(Packer_1_0_write_header(Packer_1_0_from_writer,
                                        [bytes |-> <<>>, cur |-> 0, append |-> FALSE]))}

\* the files before the call: the path k is absent or holds a container, the
\* other paths are absent, shorter than the record, or longer than it
Disks ==
    {[p \in Paths |-> IF p = "k" THEN k ELSE IF p = "o" THEN o
                      ELSE IF p = "a" THEN a ELSE NoFile] :
        k \in {NoFile} \cup ContainerFiles,
        o \in {NoFile, [exists |-> TRUE, bytes |-> <<9>>],
               [exists |-> TRUE, bytes |-> <<9, 8, 7>>]},
        a \in {NoFile, [exists |-> TRUE, bytes |-> <<5, 6>>]}}

InitCli ==
    /\ SessionIdle
    /\ LibraryIdle
    /\ origin = "none"
    /\ rcur = seek(0)
    /\ hres = NoHeader
    /\ PeerIdle
    /\ fs \in Disks
    /\ cli = NoCli

\* one run of the program with the arguments args
Main(args) ==
    /\ cli.op = "none"
    /\ LET ran(r) ==
               /\ fs' = r.disk
               /\ cli' = [op |-> "main", args |-> args, to |-> <<>>, res |-> r.res,
                          help |-> r.help, notfound |-> r.notfound, before |-> fs]
       IN  ran(main(args, fs))
    /\ UNCHANGED <<sessvars, libvars, inputvars, peervars>>

\* one call of the library's unpack_files
UnpackFiles(infile, unpack_to) ==
    /\ cli.op = "none"
    /\ LET ran(r) ==
               /\ fs' = r.disk
               /\ cli' = [op |-> "unpack_files", args |-> <<infile>>, to |-> unpack_to,
                          res |-> r.res, help |-> FALSE, notfound |-> r.notfound,
                          before |-> fs]
       IN  ran(unpack_files(fs, infile, unpack_to))
    /\ UNCHANGED <<sessvars, libvars, inputvars, peervars>>

NextCli ==
    \/ \E args \in ArgLists : Main(args)
    \/ \E unpack_to \in SeqsUpTo(Words \X Words, MaxQuery) : UnpackFiles("k", unpack_to)

SpecCli == InitCli /\ [][NextCli]_vars

(***************************************************************************)
(* Claims about one writer session and one reader session (Spec).          *)
(***************************************************************************)
\* the records handed to write_record have distinct names of at most 255 bytes
ValidInputs ==
    /\ \A i \in 1..Len(log) : Len(log[i].record.name) <= 255
    /\ \A i, j \in 1..Len(log) : i # j => log[i].record.name # log[j].record.name

\* the session wrote its header and was ended by close
SessionClosed == rp.st \in {"closed", "failed"}

\* the reader is of the writer's version / of the other version
SameVersion == rd.st # "none" /\ rd.ver = hp.ver
CrossVersion == rd.st # "none" /\ rd.ver # hp.ver

\* name was handed to write_record / was accepted by it
Written(name) == \E i \in 1..Len(log) : log[i].record.name = name
WasAccepted(name) ==
    \E i \in 1..Len(log) : log[i].record.name = name /\ log[i].res = "Ok"

C3_DuplicateRejected ==
    /\ \A i \in 1..Len(log) :
          (\E j \in 1..(i - 1) : log[j].res = "Ok"
                                 /\ log[j].record.name = log[i].record.name)
              => log[i].res = "RecordSameName"
    /\ (SessionClosed /\ SameVersion
        /\ \E i \in 1..Len(log) : log[i].res = "RecordSameName") =>
          /\ rd.st # "failed"
          /\ (rd.st = "init" /\ rres.op = "read_record" /\ WasAccepted(rres.name)) =>
                /\ rres.res = "Ok"
                /\ rres.some
                /\ \A i \in 1..Len(log) :
                      (log[i].res = "Ok" /\ log[i].record.name = rres.name)
                          => rres.rec = log[i].record

C7_NameLengthBoundary ==
    \A i \in 1..Len(log) :
        /\ Len(log[i].record.name) > 255 => log[i].res = "RecordNameTooBig"
        /\ (/\ Len(log[i].record.name) <= 255
            /\ \A j \in 1..(i - 1) : log[j].record.name # log[i].record.name)
              => log[i].res = "Ok"

\* C7 witness: a 1.0 session accepted the 255-byte name and rejected the
\* 256-byte name
C7_Witness ==
    /\ hp.ver = <<1, 0>>
    /\ \E i, j \in 1..Len(log) :
          /\ Len(log[i].record.name) = 255 /\ log[i].res = "Ok"
          /\ Len(log[j].record.name) = 256 /\ log[j].res = "RecordNameTooBig"

\* C9: cross-version isolation. A reader of the other version than the writer
\* of a closed session never returns a record for a name that was written:
\* its init fails, or the lookup reports not-found.
C9_CrossVersionIsolation ==
    (SessionClosed /\ CrossVersion /\ rres.op = "read_record"
     /\ WasAccepted(rres.name)) =>
        /\ ~rres.some
        /\ (rd.st = "init" => rres.res = "Ok")

\* C9 witness: the 1.0 reader initialised on a closed 1.1 container with two
\* records and reported a written name as not found
C9_Witness ==
    /\ SessionClosed /\ CrossVersion /\ hp.ver = <<1, 1>>
    /\ Len(Accepted) = 2
    /\ rd.st = "init" /\ rres.op = "read_record"
    /\ WasAccepted(rres.name) /\ ~rres.some /\ rres.res = "Ok"

(***************************************************************************)
(* Claims about the calls of lib.rs on one path (SpecLib).                 *)
(***************************************************************************)
\* the table the dispatcher's reader decodes from a file
toc_of(f) ==
    LET dispatched(unpacker) ==
            IF unpacker.res # "Ok" THEN [res |-> unpacker.res, toc |-> <<>>]
            ELSE VersionedUnpacker_init(unpacker.ver, f.bytes, <<>>)
    IN  IF ~f.exists THEN [res |-> "IoError", toc |-> <<>>]
        ELSE dispatched(get_unpacker(f.bytes, seek(0)))

TocNames(f) == LET t == toc_of(f) IN {t.toc[i][3] : i \in 1..Len(t.toc)}

\* names pairwise distinct and of at most 255 bytes
DistinctNames(records) ==
    /\ \A i \in 1..Len(records) : Len(records[i].name) <= 255
    /\ \A i, j \in 1..Len(records) : i # j => records[i].name # records[j].name

\* the last call was unpack_records
Unpacked == fres # "none"

\* C2: update correctness. After pack_records with records R and then
\* pack_records_update with records S, the names of R and S pairwise
\* distinct, unpack_records of every name of R and S returns every record
\* with its original bytes in query order, and nothing is not found.
C2_UpdateCorrectness ==
    (/\ Len(hist) = 3
     /\ hist[2].op = "pack" /\ hist[2].res = "Ok"
     /\ hist[3].op = "update" /\ hist[3].res = "Ok"
     /\ hist[2].records # <<>> /\ hist[3].records # <<>>
     /\ DistinctNames(HistRecords(2))
     /\ Unpacked
     /\ query.names = NamesOf(HistRecords(2))) =>
        /\ fres = "Ok"
        /\ query.found = HistRecords(2)
        /\ query.notfound = <<>>

\* C4: an update never overwrites. pack_records_update given a record whose
\* name is in the table of the existing container fails with RecordSameName,
\* and every record retrievable before the update is retrievable afterwards
\* with the same bytes.
C4_UpdateExistingNameFails ==
    \A k \in 2..Len(hist) :
        (/\ k = Len(hist)
         /\ hist[k].op = "update"
         /\ toc_of(hist[k].before).res = "Ok"
         /\ \E i \in 1..Len(hist[k].records) :
               hist[k].records[i].name \in TocNames(hist[k].before)) =>
            /\ hist[k].res = "RecordSameName"
            /\ \A name \in TocNames(hist[k].before) :
                  LET old == unpack_records(hist[k].before, <<name>>)
                      new == unpack_records(file, <<name>>)
                  IN  (old.res = "Ok" /\ old.found # <<>>) =>
                          (new.res = "Ok" /\ new.found = old.found)

\* the first record of a call that write_record does not accept: its name
\* was accepted earlier in the call or is longer than 255 bytes
Rejected(records, i) ==
    \/ Len(records[i].name) > 255
    \/ \E j \in 1..(i - 1) : records[j].name = records[i].name

FirstRejected(records) ==
    IF \E i \in 1..Len(records) : Rejected(records, i)
    THEN CHOOSE i \in 1..Len(records) :
            Rejected(records, i) /\ \A j \in 1..(i - 1) : ~Rejected(records, j)
    ELSE 0

\* C5: error propagation. When a write_record inside pack_records fails with
\* RecordSameName or RecordNameTooBig after an earlier record of the call
\* was accepted, pack_records returns that error; it does not panic and does
\* not report success.
C5_PackRecordsReturnsError ==
    \A k \in 2..Len(hist) :
        LET records == hist[k].records
            i == FirstRejected(records)
        IN  (hist[k].op = "pack" /\ i > 1) =>
                hist[k].res = IF Len(records[i].name) > 255 THEN "RecordNameTooBig"
                              ELSE "RecordSameName"

\* C8: not-found reporting. When unpack_records returns its two lists, the
\* found list holds one record for each requested name that is in the table,
\* the not-found list holds each requested name that is not, both in query
\* order, and the lengths add up to the number of requested names; asking a
\* readable container for names it does not hold is not an error.
C8_NotFoundReporting ==
    Unpacked =>
        LET t == toc_of(file)
            present(n) == n \in TocNames(file)
            absent(n) == n \notin TocNames(file)
        IN  /\ fres = "Ok" =>
                /\ NamesOf(query.found) = SelectSeq(query.names, present)
                /\ query.notfound = SelectSeq(query.names, absent)
                /\ Len(query.found) + Len(query.notfound) = Len(query.names)
            /\ (t.res = "Ok" /\ \A i \in 1..Len(query.names) : absent(query.names[i]))
                  => fres = "Ok"

\* C8 witness: a query of an absent name followed by a present one returned
\* one record and one not-found name
C8_Witness ==
    /\ Unpacked /\ fres = "Ok"
    /\ Len(query.names) = 2
    /\ Len(query.found) = 1 /\ Len(query.notfound) = 1
    /\ query.names[1] = query.notfound[1]
    /\ query.names[2] = query.found[1].name

\* C10: update of a legacy container. After a successful pack_records_update
\* of a well-formed (1, 0) container with records of new, distinct names,
\* unpack_records of the old and the new names returns every old and every
\* new record with its original bytes.
C10_LegacyUpdateReadable ==
    (/\ Len(hist) = 2
     /\ hist[1].res = "legacy"
     /\ hist[2].op = "update" /\ hist[2].res = "Ok"
     /\ hist[2].records # <<>>
     /\ DistinctNames(HistRecords(1))
     /\ Unpacked
     /\ query.names = NamesOf(HistRecords(1))) =>
        /\ fres = "Ok"
        /\ query.found = HistRecords(1)
        /\ query.notfound = <<>>

(***************************************************************************)
(* Claims about read_header, get_unpacker and the readers on given bytes   *)
(* (SpecInput).                                                            *)
(***************************************************************************)
\* C11: version fidelity. read_header on the output of the 1.1 write_header
\* returns (1, 1), on the output of the 1.0 write_header (1, 0), and every
\* file written by pack_records or pack_files starts with the six bytes
\* 'S', 'M', 'P', 'L', 1, 1 and is read as (1, 1).
C11_VersionFidelity ==
    /\ (origin \in {"pack_records", "pack_files"}) =>
          /\ Len(sink.bytes) >= 6
          /\ SubSeq(sink.bytes, 1, 6) = <<83, 77, 80, 76, 1, 1>>
    /\ hres.op = "read_header" =>
          /\ (origin \in {"write_header_1_1", "pack_records", "pack_files"}) =>
                (hres.res = "Ok" /\ hres.version = <<1, 1>>)
          /\ (origin \in {"write_header_1_0", "legacy"}) =>
                (hres.res = "Ok" /\ hres.version = <<1, 0>>)

\* C11 witness: read_header returned (1, 0) on the output of the 1.0
\* write_header
C11_Witness ==
    /\ origin = "write_header_1_0"
    /\ hres.op = "read_header" /\ hres.res = "Ok" /\ hres.version = <<1, 0>>

\* the bytes start with the magic and two version bytes
MagicOk == Len(sink.bytes) >= 6 /\ SubSeq(sink.bytes, 1, 4) = FILE_TYPE
HeaderPair == <<sink.bytes[5], sink.bytes[6]>>

\* C12: version dispatch. With the right magic read_header returns the pair
\* of version bytes whatever it is; get_unpacker returns the 1.0 reader for
\* (1, 0), the 1.1 reader for (1, 1), and for any other pair an
\* InvalidFileError that names the pair, and no reader.
C12_VersionDispatch ==
    MagicOk =>
        /\ hres.op = "read_header" => (hres.res = "Ok" /\ hres.version = HeaderPair)
        /\ hres.op = "get_unpacker" =>
              IF HeaderPair \in {<<1, 0>>, <<1, 1>>}
              THEN hres.res = "Ok" /\ hres.version = HeaderPair
              ELSE /\ hres.res = "InvalidFileError"
                   /\ hres.named = HeaderPair
                   /\ hres.version = <<0, 0>>

\* C12 witness: get_unpacker rejected the pair (0, 12) that read_header
\* accepts
C12_Witness ==
    /\ MagicOk /\ HeaderPair = <<0, 12>>
    /\ hres.op = "get_unpacker" /\ hres.res = "InvalidFileError"
    /\ hres.named = <<0, 12>>

\* C13: header validation. read_header returns InvalidFileError, and no
\* version, when the input has fewer than 4 bytes, when its first 4 bytes
\* are not 'SMPL' (valid UTF-8 or not), or when fewer than 2 bytes follow
\* them.
C13_HeaderValidation ==
    (/\ hres.op = "read_header"
     /\ \/ Len(sink.bytes) < 4
        \/ SubSeq(sink.bytes, 1, 4) # FILE_TYPE
        \/ Len(sink.bytes) < 6) =>
        /\ hres.res = "InvalidFileError"
        /\ hres.version = <<0, 0>>

\* C13 witness: read_header rejected six bytes whose magic is not UTF-8
C13_Witness ==
    /\ Len(sink.bytes) = 6
    /\ ~is_utf8(SubSeq(sink.bytes, 1, 4))
    /\ hres.op = "read_header" /\ hres.res = "InvalidFileError"

\* C14: truncated footer. init on an input shorter than the footer of the
\* reader's version (8 bytes for the 1.0 reader, 16 for the 1.1 reader)
\* returns InvalidFileError, no other error kind and no panic.
C14_TruncatedFooter ==
    (/\ rres.op = "init"
     /\ Len(sink.bytes) < FooterSize(rd.ver)) =>
        rres.res = "InvalidFileError"

\* the table region of the input as the footer of a ver reader declares it:
\* the offset the table starts at and the number of its entries
FooterOffset(bytes, ver) ==
    from_le_bytes(SubSeq(bytes, Len(bytes) - 2 * Width(ver) + 1, Len(bytes) - Width(ver)))
FooterCount(bytes, ver) ==
    from_le_bytes(SubSeq(bytes, Len(bytes) - Width(ver) + 1, Len(bytes)))

\* k entries with fields w bytes wide are declared from byte at on, and the
\* input ends inside the offset, the length, the name-length byte or the
\* name of one of them
RECURSIVE EndsInsideEntry(_, _, _, _)
EndsInsideEntry(bytes, at, k, w) ==
    IF k = 0 THEN FALSE
    ELSE IF at >= Len(bytes) THEN TRUE
    ELSE IF at + 2 * w + 1 > Len(bytes) THEN TRUE
    ELSE IF at + 2 * w + 1 + bytes[at + 2 * w + 1] > Len(bytes) THEN TRUE
    ELSE EndsInsideEntry(bytes, at + 2 * w + 1 + bytes[at + 2 * w + 1], k - 1, w)

TruncatedToc ==
    /\ Len(sink.bytes) >= FooterSize(rd.ver)
    /\ EndsInsideEntry(sink.bytes, FooterOffset(sink.bytes, rd.ver),
                       FooterCount(sink.bytes, rd.ver), Width(rd.ver))

\* C15: truncated table of contents. When the footer declares toc_count
\* entries and the bytes from toc_offset to the end of the input end inside
\* an entry's offset, length, name-length byte or name, init returns
\* InvalidFileError and the reader's table holds no partially decoded entry.
C15_TruncatedToc ==
    (/\ rres.op = "init"
     /\ TruncatedToc) =>
        /\ rres.res = "InvalidFileError"
        /\ rd.toc = <<>>

\* the entries of the reader's table with the name of the last read_record,
\* and the first of them, the one read_record uses
Matching == {i \in 1..Len(rd.toc) : rd.toc[i][3] = rres.name}
FirstMatching == CHOOSE i \in Matching : \A j \in Matching : i <= j

\* the number of bytes of the input from byte pos to its end
BytesFrom(pos) == IF pos >= Len(sink.bytes) THEN 0 ELSE Len(sink.bytes) - pos

\* C16: no partial record. read_record for a name whose table entry declares
\* an offset and a length with fewer than length bytes from the offset to
\* the end of the input returns InvalidFileError; a record it returns never
\* has fewer bytes than the declared length.
C16_NoPartialRecord ==
    (/\ rd.st = "init"
     /\ rres.op = "read_record"
     /\ Matching # {}) =>
        /\ BytesFrom(rd.toc[FirstMatching][1]) < rd.toc[FirstMatching][2] =>
              /\ rres.res = "InvalidFileError"
              /\ ~rres.some
        /\ rres.some => Len(rres.rec.data) = rd.toc[FirstMatching][2]

\* C16 witness: the 1.0 reader refused the record "c", declared as 100 bytes
\* from byte 6 of a shorter input
C16_Witness ==
    /\ rd.st = "init" /\ rd.ver = <<1, 0>>
    /\ rres.op = "read_record" /\ rres.name = NameC
    /\ rd.toc = <<<<HEADER_SIZE, 100, NameC>>>>
    /\ Len(sink.bytes) < 100
    /\ rres.res = "InvalidFileError"

\* C17: lookup before init. On a reader built with from_reader and not yet
\* initialised the table is empty, so read_record returns Ok(None) for any
\* name and reaches no read of the input.
C17_LookupBeforeInit ==
    (rd.st = "new") =>
        /\ rd.toc = <<>>
        /\ rres.op = "read_record" => (rres.res = "Ok" /\ ~rres.some)

\* C17 witness: a new 1.0 reader over a container that holds the record "c"
\* was asked for "c" and returned Ok(None)
C17_Witness ==
    /\ rd.st = "new" /\ rd.ver = <<1, 0>>
    /\ sink.bytes = Crafted(<<1, 0>>, CraftedBody(<<1, 0>>, 2, 1), 18, 1)
    /\ rres.op = "read_record" /\ rres.name = NameC
    /\ rres.res = "Ok" /\ ~rres.some

\* the header of a version, and the payloads handed to write_record, in call
\* order
HeaderOf(ver) == FILE_TYPE \o <<ver[1], ver[2]>>

RECURSIVE Payloads(_)
Payloads(l) == IF l = <<>> THEN <<>> ELSE Head(l).record.data \o Payloads(Tail(l))

\* t is a sequence of table entries with fields w bytes wide that carry the
\* given names in order, and nothing else
RECURSIVE IsTable(_, _, _)
IsTable(t, names, w) ==
    IF names = <<>> THEN t = <<>>
    ELSE /\ Len(t) >= 2 * w + 1 + Len(Head(names))
         /\ t[2 * w + 1] = Len(Head(names))
         /\ SubSeq(t, 2 * w + 2, 2 * w + 1 + Len(Head(names))) = Head(names)
         /\ IsTable(SubSeq(t, 2 * w + 2 + Len(Head(names)), Len(t)), Tail(names), w)

AcceptedNames == [i \in 1..Len(Accepted) |-> Accepted[i].record.name]

\* the output is nothing before write_header, then the header and the
\* payloads, and after close the table and a footer behind them
OutputOrder ==
    /\ rp.st = "none" => sink.bytes = <<>>
    /\ rp.st \in {"live", "dropped"} =>
          sink.bytes = HeaderOf(hp.ver) \o Payloads(log)
    /\ rp.st = "closed" =>
          /\ Len(sink.bytes) >= HEADER_SIZE + Len(Payloads(log)) + FooterSize(hp.ver)
          /\ SubSeq(sink.bytes, 1, HEADER_SIZE + Len(Payloads(log)))
                = HeaderOf(hp.ver) \o Payloads(log)
          /\ IsTable(SubSeq(sink.bytes, HEADER_SIZE + Len(Payloads(log)) + 1,
                            Len(sink.bytes) - FooterSize(hp.ver)),
                     AcceptedNames, Width(hp.ver))

\* a step of the session only adds bytes behind those already written, a
\* write_record or a close happens on a live RecordStep packer whose output
\* starts with the header, and nothing is written once close has returned
OutputStep ==
    /\ Len(sink'.bytes) >= Len(sink.bytes)
    /\ SubSeq(sink'.bytes, 1, Len(sink.bytes)) = sink.bytes
    /\ (log' # log \/ (rp.st # "closed" /\ rp'.st = "closed")) =>
          /\ rp.st = "live"
          /\ Len(sink.bytes) >= HEADER_SIZE
          /\ SubSeq(sink.bytes, 1, HEADER_SIZE) = HeaderOf(hp.ver)
    /\ rp.st \in {"closed", "failed"} => sink' = sink

\* C18: write protocol order. In every run of a fresh writer session the
\* bytes reach the sink in the order header, record payloads, table entries,
\* footer; the header is written once and before any record byte,
\* write_record and close happen only after write_header succeeded, and no
\* byte is written after close.
C18_WriteProtocolOrder == []OutputOrder /\ [][OutputStep]_vars

\* C18 witness: a closed 1.1 session with two accepted records with payloads
C18_Witness ==
    /\ hp.ver = <<1, 1>> /\ rp.st = "closed" /\ wres = "Ok"
    /\ Len(log) = 2 /\ Len(Accepted) = 2
    /\ \A i \in 1..2 : log[i].record.data # <<>>

\* the number of bytes of a table with the given names, fields w bytes wide
RECURSIVE TableLen(_, _)
TableLen(names, w) ==
    IF names = <<>> THEN 0
    ELSE 2 * w + 1 + Len(Head(names)) + TableLen(Tail(names), w)

\* the byte position of the closed output at which the table starts: the
\* table and the footer are its last bytes
TableStart ==
    Len(sink.bytes) - FooterSize(hp.ver) - TableLen(AcceptedNames, Width(hp.ver))

\* C19: close layout. close writes one table entry per accepted record in
\* insertion order, each as offset, length, one name-length byte and the
\* name, and then the footer as the final bytes of the output; the footer's
\* toc_offset is the byte position at which the first entry starts and its
\* toc_count the number of entries written.
C19_CloseLayout ==
    (rp.st = "closed") =>
        /\ TableStart >= HEADER_SIZE
        /\ IsTable(SubSeq(sink.bytes, TableStart + 1, Len(sink.bytes) - FooterSize(hp.ver)),
                   AcceptedNames, Width(hp.ver))
        /\ FooterCount(sink.bytes, hp.ver) = Len(Accepted)
        /\ FooterOffset(sink.bytes, hp.ver) = TableStart

\* the last read_header call returned what the call before it returned, and
\* a successful call left the cursor just past the header
SameAsBefore ==
    (hres.op = "read_header") =>
        /\ hres.prev # <<>> =>
              hres.prev[1] = [res |-> hres.res, version |-> hres.version]
        /\ hres.res = "Ok" => rcur.pos = HEADER_SIZE

\* a read_header call leaves the input and the reader as they were
OnlyTheCursor ==
    (hres' # hres /\ hres'.op = "read_header") =>
        /\ sink' = sink
        /\ rd' = rd

\* C20: read_header is idempotent. Called from any cursor position it
\* rewinds first, so two successive calls on the same input return the same
\* result; after a successful call the cursor is at byte 6; the call changes
\* nothing but the cursor.
C20_ReadHeaderIdempotent == []SameAsBefore /\ [][OnlyTheCursor]_vars

\* C20 witness: a second read_header, called with the cursor at byte 6 where
\* the first left it, succeeded again
C20_Witness ==
    /\ hres.op = "read_header" /\ hres.res = "Ok"
    /\ hres.prev # <<>> /\ hres.from = HEADER_SIZE
    /\ rcur.pos = HEADER_SIZE

\* the offset, the length and the name of a pending table entry of the
\* session's writer
EntryOffset(e) == IF hp.ver = <<1, 1>> THEN e.data_start ELSE e[1]
EntryLen(e) == IF hp.ver = <<1, 1>> THEN e.data_len ELSE e[2]
EntryName(e) == IF hp.ver = <<1, 1>> THEN e.record_name ELSE e[3]

\* C25: offset consistency. In every state of a writer session, after any
\* sequence of write_record calls, failed ones included, the writer's cursor
\* is the starting position plus the number of bytes emitted to the sink,
\* and every pending table entry's offset is the position in the output of
\* the first byte of that record's payload.
C25_OffsetConsistency ==
    (rp.st = "live") =>
        /\ rp.p.pos = Len(sink.bytes)
        /\ Len(rp.p.toc) = Len(Accepted)
        /\ \A i \in 1..Len(rp.p.toc) :
              /\ EntryOffset(rp.p.toc[i]) + EntryLen(rp.p.toc[i]) <= Len(sink.bytes)
              /\ SubSeq(sink.bytes, EntryOffset(rp.p.toc[i]) + 1,
                        EntryOffset(rp.p.toc[i]) + EntryLen(rp.p.toc[i]))
                    = Accepted[i].record.data

\* the output after the i-th write_record call of the session: what the next
\* call found, or what the sink holds now
BytesAfter(i) == IF i < Len(log) THEN log[i + 1].before.bytes ELSE sink.bytes
PosAfter(i) == IF i < Len(log) THEN log[i + 1].before.pos ELSE rp.p.pos
TocAfter(i) == IF i < Len(log) THEN log[i + 1].before.toc ELSE rp.p.toc

\* C26: a failed write_record changes nothing. When write_record returns
\* RecordSameName or RecordNameTooBig, no byte of the rejected record has
\* been appended to the sink, and the cursor and the pending table are as
\* before the call.
C26_FailedWriteChangesNothing ==
    (rp.st = "live") =>
        \A i \in 1..Len(log) :
            log[i].res \in {"RecordSameName", "RecordNameTooBig"} =>
                /\ BytesAfter(i) = log[i].before.bytes
                /\ PosAfter(i) = log[i].before.pos
                /\ TocAfter(i) = log[i].before.toc

\* C29: unique, bounded names. In every state of a writer session that
\* started with an empty table the names of the pending entries are pairwise
\* distinct and at most 255 bytes long, so the name-length check of the
\* table-entry encoder never fails during close.
C29_UniqueBoundedNames ==
    /\ (rp.st = "live") =>
          /\ \A i \in 1..Len(rp.p.toc) : Len(EntryName(rp.p.toc[i])) <= U8_MAX
          /\ \A i, j \in 1..Len(rp.p.toc) :
                EntryName(rp.p.toc[i]) = EntryName(rp.p.toc[j]) => i = j
    /\ rp.st # "failed"

\* C29 witness: a session with a 255-byte name and a second name pending was
\* closed successfully
C29_Witness ==
    /\ rp.st = "closed" /\ wres = "Ok"
    /\ Len(log) = 2 /\ Len(Accepted) = 2
    /\ \E i \in 1..2 : log[i].record.name = Name255

\* every write_record call of the session succeeded
AllAccepted == \A i \in 1..Len(log) : log[i].res = "Ok"

\* the first offset is 6 and each later one is the previous offset plus the
\* previous length, in a sequence of <<offset, length>> pairs
Contiguous(entries) ==
    \A i \in 1..Len(entries) :
        entries[i][1] = IF i = 1 THEN HEADER_SIZE
                        ELSE entries[i - 1][1] + entries[i - 1][2]

\* C30: contiguous payloads. In a fresh container in which every
\* write_record succeeded the first record's offset is 6, each later offset
\* is the previous offset plus the previous length, and the footer's
\* toc_offset is 6 plus the sum of the payload lengths; a record of length
\* zero shares its offset with the next record and is read back as empty.
C30_ContiguousPayloads ==
    AllAccepted =>
        /\ (rp.st = "live") =>
              Contiguous([i \in 1..Len(rp.p.toc) |->
                             <<EntryOffset(rp.p.toc[i]), EntryLen(rp.p.toc[i])>>])
        /\ (rp.st = "closed") =>
              FooterOffset(sink.bytes, hp.ver) = HEADER_SIZE + Len(Payloads(log))
        /\ (rp.st = "closed" /\ SameVersion /\ rd.st = "init") =>
              /\ Len(rd.toc) = Len(log)
              /\ Contiguous([i \in 1..Len(rd.toc) |-> <<rd.toc[i][1], rd.toc[i][2]>>])
              /\ \A i \in 1..Len(log) :
                    (rres.op = "read_record" /\ rres.name = log[i].record.name
                     /\ log[i].record.data = <<>>) =>
                        /\ rres.res = "Ok" /\ rres.some
                        /\ rres.rec.data = <<>>
                        /\ i < Len(log) => rd.toc[i][1] = rd.toc[i + 1][1]

\* C30 witness: a 1.1 container with the empty record "a" and then "b" was
\* read back: both entries have offset 6 and "a" is returned empty
C30_Witness ==
    /\ hp.ver = <<1, 1>> /\ rp.st = "closed" /\ SameVersion /\ rd.st = "init"
    /\ Len(log) = 2 /\ AllAccepted
    /\ log[1].record = Record_new(NameA, <<>>)
    /\ log[2].record = Record_new(NameB, <<135, 101>>)
    /\ rd.toc[1][1] = HEADER_SIZE /\ rd.toc[2][1] = HEADER_SIZE
    /\ rres.op = "read_record" /\ rres.name = NameA
    /\ rres.some /\ rres.rec.data = <<>>

\* the data length of the record does not fit the four bytes of the 1.0
\* writer's offsets and lengths
ExceedsU32(record) == SubSeq(Vec_len(record), U32_SIZE + 1, U64_SIZE) # <<0, 0, 0, 0>>

\* C22: record too big. write_record on a record whose data length cannot
\* be represented in the writer version's width (more than 2^32-1 bytes for
\* the 1.0 writer) fails with RecordTooBig and queues no table entry.
C22_RecordTooBig ==
    \A i \in 1..Len(log) :
        ExceedsU32(log[i].record) =>
            /\ log[i].res = "RecordTooBig"
            /\ rp.st = "live" => TocAfter(i) = log[i].before.toc

\* the file the i-th call of the history left behind
FileAfter(i) == IF i < Len(hist) THEN hist[i + 1].before ELSE file

\* the table the 1.1 writer left at the end of a file, read by its layout
\* whatever the header says
WrittenToc(f) == VersionedUnpacker_init(<<1, 1>>, f.bytes, <<>>)

NamesOfToc(toc) == [i \in 1..Len(toc) |-> toc[i][3]]

\* an update that found the file before and left the file after kept the
\* bytes it found; when it succeeded with the given records, the table it
\* wrote starts with the entries it found, unchanged, every new entry lies
\* at or behind the old end of the file, and the footer ends the file
UpdateKeeps(before, after, records, res) ==
    /\ Len(after.bytes) >= Len(before.bytes)
    /\ SubSeq(after.bytes, 1, Len(before.bytes)) = before.bytes
    /\ (res = "Ok") =>
          /\ WrittenToc(after).res = "Ok"
          /\ Len(WrittenToc(after).toc) = Len(toc_of(before).toc) + Len(records)
          /\ SubSeq(WrittenToc(after).toc, 1, Len(toc_of(before).toc)) = toc_of(before).toc
          /\ \A j \in (Len(toc_of(before).toc) + 1)..Len(WrittenToc(after).toc) :
                WrittenToc(after).toc[j][1] >= Len(before.bytes)
          /\ FooterOffset(after.bytes, <<1, 1>>)
                + TableLen(NamesOfToc(WrittenToc(after).toc), U64_SIZE)
                + FooterSize(<<1, 1>>) = Len(after.bytes)

\* C27: update leaves prior bytes in place. pack_records_update changes no
\* byte of the file in the range from 0 to the length captured before the
\* update; every pre-existing table entry is carried into the new table with
\* the same offset, length and name and ahead of the new entries, every new
\* entry's offset is at least the captured length, and the new footer is the
\* last bytes of the file.
C27_UpdateKeepsPriorBytes ==
    \A i \in 2..Len(hist) :
        (hist[i].op = "update") =>
            UpdateKeeps(hist[i].before, FileAfter(i), hist[i].records, hist[i].res)

\* C27 witness: an update with a new record succeeded on a container that
\* already held a record
C27_Witness ==
    /\ Len(hist) >= 2
    /\ hist[Len(hist)].op = "update" /\ hist[Len(hist)].res = "Ok"
    /\ hist[Len(hist)].records # <<>>
    /\ toc_of(hist[Len(hist)].before).toc # <<>>
    /\ Len(WrittenToc(file).toc) = Len(toc_of(hist[Len(hist)].before).toc)
                                     + Len(hist[Len(hist)].records)

\* the history is a pack_records and then only pack_records_update calls, at
\* least one, all of them successful
PackThenUpdates ==
    /\ Len(hist) >= 3
    /\ hist[2].op = "pack" /\ hist[2].res = "Ok"
    /\ \A i \in 3..Len(hist) : hist[i].op = "update" /\ hist[i].res = "Ok"

\* C28: repeated updates. After a pack_records followed by any number of
\* pack_records_update calls whose record names are pairwise distinct over
\* the whole sequence, the last 16 bytes of the file are a footer whose table
\* lists every record of every session in the order written, and
\* unpack_records finds each of them with its original bytes.
C28_RepeatedUpdates ==
    (PackThenUpdates /\ DistinctNames(HistRecords(2))) =>
        /\ WrittenToc(file).res = "Ok"
        /\ NamesOfToc(WrittenToc(file).toc) = NamesOf(HistRecords(2))
        /\ (Unpacked /\ query.names = NamesOf(HistRecords(2))) =>
              /\ fres = "Ok"
              /\ query.found = HistRecords(2)
              /\ query.notfound = <<>>

(***************************************************************************)
(* Claims about two reader sessions over the same bytes (SpecReaders).     *)
(***************************************************************************)
\* the known containers that have the bytes both sessions read
Known == {c \in KnownContainers : c.bytes = sink.bytes}

\* the last lookup of a session, r its Unpacker and res the result, returned
\* what the session alone returns: nothing before init, and after init with
\* the reader of the container's version the record of that name, if any
LookupAlone(r, res) ==
    (res.op = "read_record") =>
        /\ r.st = "new" => (res.res = "Ok" /\ ~res.some)
        /\ \A c \in Known :
              (r.st = "init" /\ r.ver = c.ver) =>
                  /\ res.res = "Ok"
                  /\ res.some <=> \E i \in 1..Len(c.records) : c.records[i].name = res.name
                  /\ \A i \in 1..Len(c.records) :
                        c.records[i].name = res.name => res.rec = c.records[i]

\* sessions of the same version that are equally far have the same table,
\* and their last calls, if the same, returned the same
SessionsAgree ==
    (rd.ver = peer.ver /\ rd.st = peer.st) =>
        /\ rd.toc = peer.toc
        /\ (rres.op = pres.op /\ rres.name = pres.name) => rres = pres

\* a step leaves the bytes as they are, a step of one session leaves the
\* other session as it is, and a lookup leaves the session's table alone
SessionStep ==
    /\ sink' = sink
    /\ (rd' # rd \/ rres' # rres) => (peer' = peer /\ pres' = pres)
    /\ (peer' # peer \/ pres' # pres) => (rd' = rd /\ rres' = rres)
    /\ rres'.op = "read_record" => rd'.toc = rd.toc
    /\ pres'.op = "read_record" => peer'.toc = peer.toc

\* C21: concurrent readers. Two reader sessions over the same unchanging
\* container, each with its own table and its own cursor, whose init and
\* read_record steps interleave in any order, return for every lookup what
\* the session returns run alone; a lookup changes neither the container
\* nor the session's table, so a repeated lookup returns the same record.
C21_ConcurrentReaders ==
    /\ [](LookupAlone(rd, rres) /\ LookupAlone(peer, pres) /\ SessionsAgree)
    /\ [][SessionStep]_vars

\* C21 witness: two 1.0 readers, both initialised on the 1.0 container, both
\* returned its record "c"
C21_Witness ==
    /\ origin = "legacy"
    /\ rd.st = "init" /\ rd.ver = <<1, 0>>
    /\ peer.st = "init" /\ peer.ver = <<1, 0>>
    /\ rres.op = "read_record" /\ rres.name = NameC /\ rres.some
    /\ pres.op = "read_record" /\ pres.name = NameC /\ pres.some
    /\ rres.rec = LegacyRecord /\ pres.rec = LegacyRecord

(***************************************************************************)
(* Claims about the program and unpack_files (SpecCli).                    *)
(***************************************************************************)
\* the container the call read held a record under the word
StoredIn(f, word) == unpack_records(f, <<as_bytes(word)>>).found # <<>>
DataIn(f, word) == unpack_records(f, <<as_bytes(word)>>).found[1].data

\* the names of the pairs, in request order, that the container does not hold
RECURSIVE MissingNames(_, _)
MissingNames(f, pairs) ==
    IF pairs = <<>> THEN <<>>
    ELSE IF StoredIn(f, Head(pairs)[1]) THEN MissingNames(f, Tail(pairs))
    ELSE <<Head(pairs)[1]>> \o MissingNames(f, Tail(pairs))

\* C23: after unpack_files on a container, every requested (name, path) whose
\* name the container holds has at its path exactly the bytes of that record,
\* whatever the path held before; the names it does not hold are returned in
\* request order, and a path requested only for such names is as it was
C23_UnpackFilesExactContent ==
    (cli.op = "unpack_files" /\ cli.before["k"] \in ContainerFiles) =>
        /\ cli.res = "Ok"
        /\ \A i \in 1..Len(cli.to) :
              StoredIn(cli.before["k"], cli.to[i][1]) =>
                  fs[cli.to[i][2]] = [exists |-> TRUE,
                                      bytes |-> DataIn(cli.before["k"], cli.to[i][1])]
        /\ cli.notfound = MissingNames(cli.before["k"], cli.to)
        /\ \A p \in Paths :
              (\A i \in 1..Len(cli.to) :
                  cli.to[i][2] = p => ~StoredIn(cli.before["k"], cli.to[i][1]))
              => fs[p] = cli.before[p]

\* the argument lists the program refuses: none, a word that is no verb, a
\* verb alone, a verb and a path only, an odd number of name/file arguments
Malformed(args) ==
    \/ args = <<>>
    \/ args[1] \notin {"pack", "unpack"}
    \/ Len(args) < 3
    \/ (Len(args) - 2) % 2 # 0

\* C24: a run with malformed arguments exits with failure and leaves every
\* file as it was; a well-formed unpack of a container exits successfully and
\* lists on the diagnostic output the names the container does not hold
C24_CommandLineValidation ==
    cli.op = "main" =>
        /\ Malformed(cli.args) => (cli.res = "Err" /\ fs = cli.before)
        /\ (/\ ~Malformed(cli.args)
            /\ cli.args[1] = "unpack"
            /\ cli.before[cli.args[2]] \in ContainerFiles)
           => (/\ cli.res = "Ok"
               /\ cli.notfound = MissingNames(cli.before[cli.args[2]],
                                              chunks(Tail(Tail(cli.args)))))

\* witness for C24: pack was run with three words after the output path, the
\* file of the first pair exists, and the run failed without creating the
\* output file
C24_Witness ==
    /\ cli.op = "main"
    /\ cli.args = <<"pack", "k", "a", "a", "o">>
    /\ cli.before["a"].exists
    /\ ~cli.before["k"].exists
    /\ cli.res = "Err"
    /\ ~fs["k"].exists

(***************************************************************************)
(* Claims about decoding given bytes, continued (SpecInput).               *)
(***************************************************************************)
\* C31: first match wins. When the decoded table holds several entries with
\* the name asked for and the first of them lies inside the input,
\* read_record returns a record with that name and exactly the bytes the
\* first entry declares, its length from its offset.
C31_FirstMatchWins ==
    (/\ rd.st = "init"
     /\ rres.op = "read_record"
     /\ Cardinality(Matching) > 1
     /\ BytesFrom(rd.toc[FirstMatching][1]) >= rd.toc[FirstMatching][2]) =>
        /\ rres.res = "Ok"
        /\ rres.some
        /\ rres.rec.name = rres.name
        /\ rres.rec.data = SubSeq(sink.bytes, rd.toc[FirstMatching][1] + 1,
                                  rd.toc[FirstMatching][1] + rd.toc[FirstMatching][2])

\* C31 witness: the 1.0 reader decoded two entries named "c", for the bytes
\* 4, 5 and for the byte 6, and read_record("c") returned the bytes 4, 5
C31_Witness ==
    /\ rd.st = "init" /\ rd.ver = <<1, 0>>
    /\ rd.toc = <<<<HEADER_SIZE, 2, NameC>>, <<HEADER_SIZE + 2, 1, NameC>>>>
    /\ rres.op = "read_record" /\ rres.name = NameC
    /\ rres.some
    /\ rres.rec.data = <<4, 5>>

(***************************************************************************)
(* Claims about the library entry points, continued (SpecLib).             *)
(***************************************************************************)
\* the number of payload bytes of the records
RECURSIVE PayloadBytes(_)
PayloadBytes(records) ==
    IF records = <<>> THEN 0 ELSE Len(Head(records).data) + PayloadBytes(Tail(records))

\* the last n bytes of the file
LastBytes(n) == SubSeq(file.bytes, Len(file.bytes) - n + 1, Len(file.bytes))

\* C32: after pack_records succeeded on a path that already held a file, the
\* last 16 bytes of the file are the footer of the new container (the table
\* starts after the header and the payloads, it has one entry per record),
\* the table decoded from the file names exactly the new records, and
\* unpack_records of their names returns them and finds every one.
C32_PackRecordsFresh ==
    (/\ Len(hist) = 2
     /\ hist[2].op = "pack"
     /\ hist[2].res = "Ok"
     /\ hist[2].before.exists) =>
        /\ Len(file.bytes) >= HEADER_SIZE + 2 * U64_SIZE
        /\ LastBytes(2 * U64_SIZE) =
              to_le_bytes(HEADER_SIZE + PayloadBytes(hist[2].records), U64_SIZE)
              \o to_le_bytes(Len(hist[2].records), U64_SIZE)
        /\ toc_of(file).res = "Ok"
        /\ TocNames(file) = {hist[2].records[i].name : i \in 1..Len(hist[2].records)}
        /\ unpack_records(file, NamesOf(hist[2].records)) =
              [res |-> "Ok", found |-> hist[2].records, notfound |-> <<>>]

(***************************************************************************)
(* Claims about decoding given bytes, the large container (SpecInput).     *)
(***************************************************************************)
\* the bytes are a container that a writer of the library closed
WellFormed == origin \in {"legacy", "pack_records", "large"}

\* C33: decoding tolerates short reads. On a well-formed container, whatever
\* the number of its entries and the size of its table, init of the reader
\* of the container's version succeeds and decodes as many entries as the
\* footer counts, and every read_record after it succeeds.
C33_ShortReads ==
    (WellFormed /\ rd.st # "none" /\ rd.ver = HeaderPair) =>
        /\ rres.op = "init" =>
              /\ rres.res = "Ok"
              /\ Len(rd.toc) = FooterCount(sink.bytes, rd.ver)
        /\ (rd.st = "init" /\ rres.op = "read_record") => rres.res = "Ok"

\* the error kinds of EasypackError
TypedErrors == {"IoError", "InvalidFileError", "RecordTooBig", "RecordNameTooBig",
                "RecordSameName", "InternalError"}

\* C34: init never panics. Whatever the input bytes, init of either reader
\* ends with success or with a typed error, and the program goes on.
C34_InitNeverPanics ==
    rres.op = "init" => (rres.res \in {"Ok"} \cup TypedErrors /\ ~Dead)

(***************************************************************************)
(* Claims about the library entry points, rejected updates (SpecLib).      *)
(***************************************************************************)
\* the file of the k-th call cannot be updated: it does not exist, or its
\* header, its footer or its table is refused
Undecodable(f) == toc_of(f).res # "Ok"

\* C35: a rejected update appends nothing. pack_records_update on a path
\* with no file, or with a file whose header, footer or table cannot be
\* decoded, returns an error and leaves the file as it was before the call.
C35_RejectedUpdateAppendsNothing ==
    \A k \in 2..Len(hist) :
        (hist[k].op = "update" /\ Undecodable(hist[k].before)) =>
            /\ hist[k].res \in TypedErrors
            /\ FileAfter(k) = hist[k].before

\* the container of no records: the header and a footer with toc_offset 6
\* and toc_count 0
EmptyContainer == FILE_TYPE \o <<1, 1>> \o to_le_bytes(HEADER_SIZE, U64_SIZE)
                            \o to_le_bytes(0, U64_SIZE)

\* C36: empty container. pack_records with no records returns Ok, no drop of
\* its writer raising the assertion, and the file is then the 22 bytes of the
\* header and a footer with toc_offset 6 and toc_count 0; on it read_header
\* returns (1, 1), init succeeds with an empty table and every lookup reports
\* not-found.
C36_EmptyContainer ==
    (/\ Len(hist) >= 2
     /\ hist[2].op = "pack"
     /\ hist[2].records = <<>>) =>
        /\ hist[2].res = "Ok"
        /\ Len(FileAfter(2).bytes) = 22
        /\ FileAfter(2).bytes = EmptyContainer
        /\ read_header(FileAfter(2).bytes, seek(0)).res = "Ok"
        /\ read_header(FileAfter(2).bytes, seek(0)).version = <<1, 1>>
        /\ toc_of(FileAfter(2)) = [res |-> "Ok", toc |-> <<>>]
        /\ \A name \in QNames :
              unpack_records(FileAfter(2), <<name>>) =
                  [res |-> "Ok", found |-> <<>>, notfound |-> <<name>>]

(***************************************************************************)
(* Claims about the cursor of the 1.0 writer (SpecSize).                   *)
(***************************************************************************)
\* the cursor before the i-th write_record plus the length of its record, a
\* length that a u32 holds, exceeds 2^32 - 1
CursorOverflows(i) ==
    /\ ~ExceedsU32(log[i].record)
    /\ add_u32(log[i].before.pos, SubSeq(Vec_len(log[i].record), 1, U32_SIZE)).overflow

\* C37: no cursor wrap-around in the 1.0 writer. A write_record whose record
\* would take the cursor past 2^32 - 1 returns an error, it does not abort,
\* it queues no entry and the cursor stays where it was.
C37_NoCursorWrap ==
    \A i \in 1..Len(log) :
        CursorOverflows(i) =>
            /\ log[i].res \in TypedErrors
            /\ TocAfter(i) = log[i].before.toc
            /\ PosAfter(i) = log[i].before.pos

====
